---- MODULE Spec2Model ----
(***************************************************************************)
(* Durak rules engine: the GameState state machine of src/game (cards,     *)
(* deck, player hands, attack / defend / pass / take / discard / draw,     *)
(* win detection, stuck recovery).                                         *)
(*                                                                         *)
(* Encoding.  Suit and Rank are the enum discriminants (Clubs = 0 ..       *)
(* Spades = 3, Six = 0 .. Ace = 8).  A Card is [suit, rank].  Option<T> is *)
(* a sequence of length 0 (None) or 1 (Some).  A Vec is a sequence; a hand *)
(* index of the code (0-based) addresses element index + 1.  A table entry *)
(* (Card, Option<Card>) is the pair <<attack, defense>>.                   *)
(***************************************************************************)
EXTENDS Integers, Sequences, FiniteSets, TLC

\* ------------------------------------------------------------------ bounds
\* seats at the table: 2 .. MaxSeats
MaxSeats == 3
\* number of shuffle outcomes explored
NumShuffles == 2
\* calls explored after the starting position
MaxOps == 3
\* largest deck remainder of the hands in progress that are explored
MaxDeckLeft == 2
\* most cards a seat has played out of a full hand in a hand in progress
MaxBurn == 1
\* hand indices 0 .. MaxIdx are tried as arguments, with the last valid and
\* the first invalid one
MaxIdx == 1
\* largest hand of the end-of-game positions (deck used up) that are explored
MaxEndHand == 1

\* ------------------------------------------------------- program constants
NumSuits == 4
NumRanks == 9
HandTarget == 6
StuckLimit == 5

None == <<>>
Some(x) == <<x>>

Suits == 0 .. (NumSuits - 1)
Ranks == 0 .. (NumRanks - 1)
Card(s, r) == [suit |-> s, rank |-> r]
Cards == [suit : Suits, rank : Ranks]

\* ------------------------------------------------------------------- card
\* can_beat that lets the higher rank win across suits as well
can_beat_mut(self, other, trump_suit) ==
    IF self.suit = trump_suit /\ other.suit # trump_suit
    THEN TRUE
    ELSE self.rank > other.rank

\* Card::can_beat
can_beat(self, other, trump_suit) ==
    IF self.suit = other.suit
    THEN self.rank > other.rank
    ELSE IF self.suit = trump_suit /\ other.suit # trump_suit
         THEN TRUE
         ELSE FALSE

\* Card::can_pass
can_pass(self, other) == self.rank = other.rank

\* ------------------------------------------------------------------- deck
\* Deck::new : suit-major, rank-minor, no trump yet
DeckNew ==
    [cards |-> [i \in 1 .. (NumSuits * NumRanks) |->
                   Card((i - 1) \div NumRanks, (i - 1) % NumRanks)],
     trump_suit |-> None]

\* the outcomes of cards.shuffle(rng) that are explored: permutation k maps
\* position i to the card at position ((i-1) * stride + 9 k) mod 36 of the new
\* deck; every stride is coprime to 36, so each is a permutation.  Outcome 0
\* lays the deck out rank by rank from the Aces down, the four suits of a rank
\* together, so that hands hold several cards of one rank
Strides == <<7, 11, 5, 13, 17>>
ShuffleIds == 1 .. NumShuffles
ShuffleOrder(k) ==
    LET n == NumSuits * NumRanks
        st == Strides[((k - 1) % Len(Strides)) + 1]
    IN  IF k = 0
        THEN [i \in 1 .. n |->
                 ((i - 1) % NumSuits) * NumRanks
                 + (NumRanks - 1 - ((i - 1) \div NumSuits)) + 1]
        ELSE [i \in 1 .. n |-> (((i - 1) * st + 9 * k) % n) + 1]

\* Deck::shuffle with shuffle outcome k
shuffle(deck, k) ==
    LET p == ShuffleOrder(k)
        cs == [i \in 1 .. Len(deck.cards) |-> deck.cards[p[i]]]
    IN  [cards |-> cs,
         trump_suit |-> IF Len(cs) > 0 THEN Some(cs[Len(cs)].suit)
                                       ELSE deck.trump_suit]

\* a deal that takes the cards from the front of the deck
deal_mut(deck, count) ==
    LET len == Len(deck.cards)
        n == IF count < len THEN count ELSE len
    IN  [deck |-> [deck EXCEPT !.cards = SubSeq(deck.cards, n + 1, len)],
         hand |-> [i \in 1 .. n |-> deck.cards[i]]]

\* Deck::deal : pops up to count cards from the end
deal(deck, count) ==
    LET len == Len(deck.cards)
        n == IF count < len THEN count ELSE len
    IN  [deck |-> [deck EXCEPT !.cards = SubSeq(deck.cards, 1, len - n)],
         hand |-> [i \in 1 .. n |-> deck.cards[len - i + 1]]]

\* Deck::is_empty
deck_is_empty(deck) == Len(deck.cards) = 0

\* ----------------------------------------------------------------- player
\* the comparator of Player::sort_hand: a sorts strictly before b
hand_less(a, b) ==
    IF a.suit = b.suit THEN a.rank < b.rank ELSE a.suit < b.suit

RECURSIVE sort_insert(_, _)
sort_insert(sorted, c) ==
    IF sorted = <<>> THEN <<c>>
    ELSE IF hand_less(c, Head(sorted))
         THEN <<c>> \o sorted
         ELSE <<Head(sorted)>> \o sort_insert(Tail(sorted), c)

\* Player::sort_hand (stable sort by suit, then rank)
RECURSIVE sort_hand(_)
sort_hand(hand) ==
    IF hand = <<>> THEN <<>>
    ELSE sort_insert(sort_hand(SubSeq(hand, 1, Len(hand) - 1)), hand[Len(hand)])

\* Player::add_cards
add_cards(hand, cards) == sort_hand(hand \o cards)

\* remove_card that pops the last card of the hand whatever the index
remove_card_mut(hand, index) ==
    IF index < Len(hand)
    THEN [hand |-> SubSeq(hand, 1, Len(hand) - 1), card |-> Some(hand[Len(hand)])]
    ELSE [hand |-> hand, card |-> None]

\* Player::remove_card : [hand, card] with card = None when out of range
remove_card(hand, index) ==
    IF index < Len(hand)
    THEN [hand |-> SubSeq(hand, 1, index) \o SubSeq(hand, index + 2, Len(hand)),
          card |-> Some(hand[index + 1])]
    ELSE [hand |-> hand, card |-> None]

\* Player::hand_size
hand_size(hand) == Len(hand)

\* Player::is_empty_hand
is_empty_hand(hand) == Len(hand) = 0

\* ------------------------------------------------------------- game state
\* GameState::new followed by n calls of add_player (App::new adds the human
\* seat 0 and the computer seat 1; further seats are computer seats)
NewGame(n) ==
    [players |-> [i \in 0 .. (n - 1) |->
                     [player_type |-> IF i = 0 THEN "Human" ELSE "Computer",
                      hand |-> <<>>]],
     deck |-> DeckNew,
     discard_pile |-> <<>>,
     table_cards |-> <<>>,
     current_attacker |-> 0,
     current_defender |-> 0,
     trump_suit |-> None,
     game_phase |-> "Setup",
     winner |-> None,
     stuck_counter |-> 0]

\* self.players.len()
NumPlayers(g) == Cardinality(DOMAIN g.players)

\* the result of a call: the state it leaves and what it returns
Ok(g) == [gs |-> g, res |-> "Ok"]
Err(g, msg) == [gs |-> g, res |-> msg]

\* get_lowest_trump that returns the trump of the highest rank
get_lowest_trump_mut(hand, trump_suit) ==
    LET idxs == {i \in 1 .. Len(hand) : hand[i].suit = trump_suit}
    IN  IF idxs = {} THEN None
        ELSE LET m == CHOOSE i \in idxs :
                        \A j \in idxs : hand[i].rank > hand[j].rank
                                        \/ (hand[i].rank = hand[j].rank /\ i <= j)
             IN  Some(<<m - 1, hand[m]>>)

\* Player::get_lowest_trump : Some(<<index, card>>) of the first trump of
\* minimal rank, None without a trump
get_lowest_trump(hand, trump_suit) ==
    LET idxs == {i \in 1 .. Len(hand) : hand[i].suit = trump_suit}
    IN  IF idxs = {} THEN None
        ELSE LET m == CHOOSE i \in idxs :
                        \A j \in idxs : hand[i].rank < hand[j].rank
                                        \/ (hand[i].rank = hand[j].rank /\ i <= j)
             IN  Some(<<m - 1, hand[m]>>)

\* the loop of determine_first_player from seat i on: <<lowest_player,
\* lowest_rank>> with lowest_rank an Option
RECURSIVE first_player_scan(_, _, _, _)
first_player_scan(g, i, lowest_player, lowest_rank) ==
    IF i >= NumPlayers(g) THEN <<lowest_player, lowest_rank>>
    ELSE LET lt == get_lowest_trump(g.players[i].hand, g.trump_suit[1])
         IN  IF lt # None /\ (lowest_rank = None \/ lt[1][2].rank < lowest_rank[1])
             THEN first_player_scan(g, i + 1, i, Some(lt[1][2].rank))
             ELSE first_player_scan(g, i + 1, lowest_player, lowest_rank)

\* GameState::determine_first_player
determine_first_player(g) ==
    IF g.trump_suit # None /\ first_player_scan(g, 0, 0, None)[2] # None
    THEN [g EXCEPT !.current_attacker = first_player_scan(g, 0, 0, None)[1]]
    ELSE [g EXCEPT !.current_attacker = 0]

\* the dealing loop of setup_game from seat i on
RECURSIVE setup_deal(_, _)
setup_deal(g, i) ==
    IF i >= NumPlayers(g) THEN g
    ELSE LET d == deal(g.deck, HandTarget)
         IN  setup_deal([g EXCEPT !.deck = d.deck,
                                  !.players[i].hand = add_cards(@, d.hand)],
                        i + 1)

\* GameState::setup_game with shuffle outcome k
setup_game(g, k) ==
    LET dk == shuffle(DeckNew, k)
        g1 == setup_deal([g EXCEPT !.deck = dk, !.trump_suit = dk.trump_suit], 0)
        g2 == determine_first_player(g1)
    IN  [g2 EXCEPT !.current_defender = (g2.current_attacker + 1) % NumPlayers(g),
                   !.game_phase = "Attack",
                   !.stuck_counter = 0]

\* attack that sets phase and roles before it looks at the card index
attack_mut(g, card_idx, player_idx) ==
    LET rc == remove_card(g.players[player_idx].hand, card_idx)
        g1 == [g EXCEPT !.game_phase = "Defense",
                        !.current_attacker = player_idx,
                        !.current_defender = (player_idx + 1) % NumPlayers(g)]
    IN  IF rc.card # None
        THEN Ok([g1 EXCEPT !.players[player_idx].hand = rc.hand,
                           !.table_cards = Append(@, <<rc.card[1], None>>)])
        ELSE Err(g1, "Invalid card index")

\* GameState::attack
attack(g, card_idx, player_idx) ==
    LET rc == remove_card(g.players[player_idx].hand, card_idx)
    IN  IF rc.card # None
        THEN Ok([g EXCEPT !.players[player_idx].hand = rc.hand,
                          !.table_cards = Append(@, <<rc.card[1], None>>),
                          !.game_phase = "Defense",
                          !.current_attacker = player_idx,
                          !.current_defender = (player_idx + 1) % NumPlayers(g)])
        ELSE Err(g, "Invalid card index")

\* pass_attack that hands the defense back to the seat that attacked
pass_attack_mut(g, card_idx, attack_idx) ==
    LET rc == remove_card(g.players[g.current_defender].hand, card_idx)
        old_defender == g.current_defender
    IN  IF rc.card # None
        THEN Ok([g EXCEPT !.players[old_defender].hand = rc.hand,
                          !.table_cards = Append(@, <<rc.card[1], None>>),
                          !.current_attacker = old_defender,
                          !.current_defender = g.current_attacker,
                          !.game_phase = "Defense"])
        ELSE Err(g, "Failed to remove card from hand during pass")

\* GameState::pass_attack
pass_attack(g, card_idx, attack_idx) ==
    LET rc == remove_card(g.players[g.current_defender].hand, card_idx)
        old_defender == g.current_defender
    IN  IF rc.card # None
        THEN Ok([g EXCEPT !.players[old_defender].hand = rc.hand,
                          !.table_cards = Append(@, <<rc.card[1], None>>),
                          !.current_attacker = old_defender,
                          !.current_defender = (old_defender + 1) % NumPlayers(g),
                          !.game_phase = "Defense"])
        ELSE Err(g, "Failed to remove card from hand during pass")

\* table_cards.iter().position(|(_, defense)| defense.is_none()), 0-based;
\* None when every entry is defended
first_undefended(table) ==
    LET und == {i \in 1 .. Len(table) : table[i][2] = None}
    IN  IF und = {} THEN None
        ELSE Some((CHOOSE i \in und : \A j \in und : i <= j) - 1)

\* validity test in which any trump beats an attacking trump
defend_is_valid_mut(defense_card, attack_card, trump_suit) ==
    IF trump_suit # None
    THEN IF defense_card.suit = trump_suit[1]
         THEN TRUE
         ELSE defense_card.suit = attack_card.suit
              /\ defense_card.rank > attack_card.rank
    ELSE defense_card.suit = attack_card.suit /\ defense_card.rank > attack_card.rank

\* the validity test written out in GameState::defend
defend_is_valid(defense_card, attack_card, trump_suit) ==
    IF trump_suit # None
    THEN IF attack_card.suit = trump_suit[1]
         THEN defense_card.suit = trump_suit[1] /\ defense_card.rank > attack_card.rank
         ELSE IF defense_card.suit = trump_suit[1]
              THEN TRUE
              ELSE defense_card.suit = attack_card.suit
                   /\ defense_card.rank > attack_card.rank
    ELSE defense_card.suit = attack_card.suit /\ defense_card.rank > attack_card.rank

\* GameState::defend
defend(g, card_idx) ==
    LET undefended_idx == first_undefended(g.table_cards)
    IN  IF undefended_idx # None
        THEN LET attack_idx == undefended_idx[1]
                 hand == g.players[g.current_defender].hand
             IN  IF card_idx >= Len(hand)
                 THEN Err(g, "Invalid card index")
                 ELSE LET defense_card == hand[card_idx + 1]
                          attack_card == g.table_cards[attack_idx + 1][1]
                      IN  IF can_pass(defense_card, attack_card)
                          THEN pass_attack(g, card_idx, attack_idx)
                          ELSE IF defend_is_valid(defense_card, attack_card, g.trump_suit)
                               THEN LET rc == remove_card(hand, card_idx)
                                    IN  IF rc.card # None
                                        THEN Ok([g EXCEPT
                                                  !.players[g.current_defender].hand = rc.hand,
                                                  !.table_cards[attack_idx + 1][2] = rc.card])
                                        ELSE Err(g, "Failed to remove card from hand")
                               ELSE Err(g, "Invalid defense - card cannot beat the attack")
        ELSE Err(g, "No undefended attacks to defend against")

\* collection of the table that forgets the defense cards
table_flat_mut(table) == [i \in 1 .. Len(table) |-> table[i][1]]

\* the cards of the table in the order in which the code collects them:
\* each attack card followed by its defense card, if any
RECURSIVE table_flat(_)
table_flat(table) ==
    IF table = <<>> THEN <<>>
    ELSE <<table[1][1]>> \o table[1][2] \o table_flat(Tail(table))

\* for_each of discard_cards that writes nothing
write_defenses_mut(table, cards) == table

\* the for_each of discard_cards: writes cards[i] = <<table index, card>>
RECURSIVE write_defenses(_, _)
write_defenses(table, cards) ==
    IF cards = <<>> THEN table
    ELSE write_defenses([table EXCEPT ![cards[1][1] + 1][2] = Some(cards[1][2])],
                        Tail(cards))

\* discard_cards that makes the old defender the attacker and leaves it the
\* defender as well
discard_cards_mut(g, cards) ==
    LET table == write_defenses(g.table_cards, cards)
        all_defended == ~ \E i \in 1 .. Len(table) : table[i][2] = None
        old_defender == g.current_defender
    IN  IF all_defended
        THEN [g EXCEPT !.table_cards = <<>>,
                       !.discard_pile = @ \o table_flat(table),
                       !.current_attacker = old_defender,
                       !.game_phase = "Drawing"]
        ELSE [g EXCEPT !.table_cards = table]

\* GameState::discard_cards
discard_cards(g, cards) ==
    LET table == write_defenses(g.table_cards, cards)
        all_defended == ~ \E i \in 1 .. Len(table) : table[i][2] = None
        old_defender == g.current_defender
    IN  IF all_defended
        THEN [g EXCEPT !.table_cards = <<>>,
                       !.discard_pile = @ \o table_flat(table),
                       !.current_attacker = old_defender,
                       !.current_defender = (old_defender + 1) % NumPlayers(g),
                       !.game_phase = "Drawing"]
        ELSE [g EXCEPT !.table_cards = table]

\* take_cards that hands over only the last entry of the table
take_cards_mut(g) ==
    IF g.game_phase # "Defense"
    THEN Err(g, "panic")
    ELSE IF g.table_cards = <<>>
         THEN Err(g, "No cards on table to take")
         ELSE Ok([g EXCEPT !.table_cards = SubSeq(@, 1, Len(@) - 1),
                           !.players[g.current_defender].hand =
                                add_cards(@, table_flat(
                                    <<g.table_cards[Len(g.table_cards)]>>)),
                           !.game_phase = "Drawing"])

\* GameState::take_cards ; the assert! aborts the process outside Defense
take_cards(g) ==
    IF g.game_phase # "Defense"
    THEN Err(g, "panic")
    ELSE IF g.table_cards = <<>>
         THEN Err(g, "No cards on table to take")
         ELSE Ok([g EXCEPT !.table_cards = <<>>,
                           !.players[g.current_defender].hand =
                                add_cards(@, table_flat(g.table_cards)),
                           !.game_phase = "Drawing"])

\* check_game_over that records the seat still holding cards as the winner
check_game_over_mut(g) ==
    IF deck_is_empty(g.deck)
    THEN LET with_cards == {i \in DOMAIN g.players : ~ is_empty_hand(g.players[i].hand)}
             players_with_cards == Cardinality(with_cards)
         IN  IF players_with_cards <= 1
             THEN IF players_with_cards = 1
                  THEN [gs |-> [g EXCEPT !.winner = Some(CHOOSE i \in with_cards : TRUE),
                                         !.game_phase = "GameOver"],
                        ret |-> TRUE]
                  ELSE [gs |-> [g EXCEPT !.game_phase = "GameOver"], ret |-> TRUE]
             ELSE [gs |-> g, ret |-> FALSE]
    ELSE [gs |-> g, ret |-> FALSE]

\* GameState::check_game_over : the state it leaves and the bool it returns
check_game_over(g) ==
    IF deck_is_empty(g.deck)
    THEN LET with_cards == {i \in DOMAIN g.players : ~ is_empty_hand(g.players[i].hand)}
             players_with_cards == Cardinality(with_cards)
         IN  IF players_with_cards <= 1
             THEN IF players_with_cards = 1
                  THEN LET loser_idx == CHOOSE i \in with_cards : TRUE
                           winner_idx == IF loser_idx = 1 THEN 0 ELSE 1
                       IN  [gs |-> [g EXCEPT !.winner = Some(winner_idx),
                                             !.game_phase = "GameOver"],
                            ret |-> TRUE]
                  ELSE [gs |-> [g EXCEPT !.game_phase = "GameOver"], ret |-> TRUE]
             ELSE [gs |-> g, ret |-> FALSE]
    ELSE [gs |-> g, ret |-> FALSE]

\* drawing order that starts with the defender
drawing_order_mut(g) ==
    [j \in 1 .. NumPlayers(g) |-> (g.current_defender + j - 1) % NumPlayers(g)]

\* the drawing_order queue of draw_cards: every seat once, in cyclic seat
\* order from the attacker
drawing_order(g) ==
    [j \in 1 .. NumPlayers(g) |-> (g.current_attacker + j - 1) % NumPlayers(g)]

\* cards_needed that tops a hand up to one card more
cards_needed_mut(hand) ==
    IF hand_size(hand) > HandTarget THEN 0 ELSE HandTarget + 1 - hand_size(hand)

\* 6usize.saturating_sub(player.hand_size())
cards_needed(hand) ==
    IF hand_size(hand) >= HandTarget THEN 0 ELSE HandTarget - hand_size(hand)

\* the drawing loop of draw_cards: the seats of the queue are popped from the
\* front and each is topped up to HandTarget while the deck has cards
RECURSIVE draw_loop(_, _)
draw_loop(g, order) ==
    IF order = <<>> THEN g
    ELSE LET player_idx == Head(order)
             needed == cards_needed(g.players[player_idx].hand)
             d == deal(g.deck, needed)
             g1 == IF needed > 0 /\ ~ deck_is_empty(g.deck)
                   THEN [g EXCEPT !.deck = d.deck,
                                  !.players[player_idx].hand = add_cards(@, d.hand)]
                   ELSE g
         IN  draw_loop(g1, Tail(order))

\* draw_cards returning without the reset of the counter
draw_finish_mut(g) == g

\* the end of draw_cards: the counter is cleared once Attack or GameOver is reached
draw_finish(g) ==
    IF g.game_phase = "Attack" \/ g.game_phase = "GameOver"
    THEN [g EXCEPT !.stuck_counter = 0]
    ELSE g

\* early return of draw_cards that also rotates the roles
draw_skip_mut(g) ==
    [g EXCEPT !.game_phase = "Attack",
              !.stuck_counter = 0,
              !.current_attacker = (g.current_defender + 1) % NumPlayers(g),
              !.current_defender = (g.current_defender + 2) % NumPlayers(g)]

\* an early return of draw_cards that evaluates the win condition
draw_skip_checked(g) ==
    IF check_game_over(g).ret THEN [check_game_over(g).gs EXCEPT !.stuck_counter = 0]
    ELSE [g EXCEPT !.game_phase = "Attack", !.stuck_counter = 0]

\* the early return of draw_cards when no seat needs cards
draw_skip(g) == [g EXCEPT !.game_phase = "Attack", !.stuck_counter = 0]

\* GameState::draw_cards
draw_cards(g) ==
    IF g.game_phase # "Drawing" THEN g
    ELSE LET g0 == [g EXCEPT !.stuck_counter = @ + 1]
         IN  IF g0.stuck_counter > StuckLimit
             THEN [g0 EXCEPT !.game_phase = "Attack",
                             !.stuck_counter = 0,
                             !.discard_pile = @ \o table_flat(g0.table_cards),
                             !.table_cards = <<>>]
             ELSE LET players_need_cards ==
                          \E i \in DOMAIN g0.players :
                              hand_size(g0.players[i].hand) < HandTarget
                              /\ ~ deck_is_empty(g0.deck)
                  IN  IF ~ players_need_cards
                      THEN draw_skip(g0)
                      ELSE IF ~ deck_is_empty(g0.deck)
                      THEN LET g1 == draw_loop(g0, drawing_order(g0))
                               g2 == check_game_over(g1).gs
                               na == (g2.current_defender + 1) % NumPlayers(g2)
                           IN  IF g2.game_phase # "GameOver"
                               THEN IF g2.table_cards # <<>>
                                    THEN draw_finish(
                                           [g2 EXCEPT !.current_attacker = na,
                                                      !.current_defender =
                                                          (na + 1) % NumPlayers(g2),
                                                      !.game_phase = "Attack"])
                                    ELSE draw_finish([g2 EXCEPT !.game_phase = "Attack"])
                               ELSE draw_finish(g2)
                      ELSE LET g2 == check_game_over(g0).gs
                           IN  IF g2.game_phase # "GameOver"
                               THEN draw_finish([g2 EXCEPT !.game_phase = "Attack"])
                               ELSE draw_finish(g2)

\* GameState::force_attack_phase
force_attack_phase(state) ==
    [state EXCEPT !.game_phase = "Attack",
                  !.stuck_counter = 0,
                  !.discard_pile = @ \o table_flat(state.table_cards),
                  !.table_cards = <<>>]

\* ------------------------------------------------- multi-card defense
\* the undefended table entries of handle_multi_defense, in table order, as
\* <<table index, attack card>>
undefended_attacks(table) ==
    LET RECURSIVE collect(_)
        collect(i) == IF i > Len(table) THEN <<>>
                      ELSE (IF table[i][2] = None
                            THEN <<(<<i - 1, table[i][1]>>)>> ELSE <<>>)
                           \o collect(i + 1)
    IN  collect(1)

\* the validity test written out in handle_multi_defense
multi_defense_is_valid(card, attack_card, trump_suit) ==
    IF trump_suit # None
    THEN IF attack_card.suit = trump_suit[1]
         THEN card.suit = trump_suit[1] /\ card.rank > attack_card.rank
         ELSE IF card.suit = trump_suit[1]
              THEN TRUE
              ELSE card.suit = attack_card.suit /\ card.rank > attack_card.rank
    ELSE card.suit = attack_card.suit /\ card.rank > attack_card.rank

\* the first selected hand index, in selection order, that is not used yet and
\* whose card is a valid defense against attack_card; None if there is none
find_defense(hand, selected, used, attack_card, trump_suit) ==
    LET ok == {i \in 1 .. Len(selected) :
                  /\ \A u \in 1 .. Len(used) : used[u] # selected[i]
                  /\ multi_defense_is_valid(hand[selected[i] + 1], attack_card,
                                            trump_suit)}
    IN  IF ok = {} THEN None
        ELSE Some(selected[CHOOSE i \in ok : \A j \in ok : i <= j])

\* the mapping loop of handle_multi_defense over the undefended entries:
\* Some(defense_mapping) of <<table index, hand index, card>>, or None as soon
\* as an attack finds no defense among the selected cards
RECURSIVE map_defenses(_, _, _, _, _, _)
map_defenses(hand, selected, trump_suit, undefended, defense_mapping, used) ==
    IF undefended = <<>> THEN Some(defense_mapping)
    ELSE LET f == find_defense(hand, selected, used, undefended[1][2], trump_suit)
         IN  IF f = None THEN None
             ELSE map_defenses(hand, selected, trump_suit, Tail(undefended),
                               Append(defense_mapping,
                                      <<undefended[1][1], f[1], hand[f[1] + 1]>>),
                               Append(used, f[1]))

\* the removal loop of handle_multi_defense: remove_card for every mapped hand
\* index, in mapping order, the result of each removal ignored
RECURSIVE remove_mapped(_, _)
remove_mapped(hand, defense_mapping) ==
    IF defense_mapping = <<>> THEN hand
    ELSE remove_mapped(remove_card(hand, defense_mapping[1][2]).hand,
                       Tail(defense_mapping))

\* App::handle_multi_defense with the selection selected_cards: the state it
\* leaves, the GameState call it ends with (op), the state that call was
\* applied to (pre) and the argument of discard_cards (cards)
handle_multi_defense(g, player_idx, selected_cards) ==
    LET und == undefended_attacks(g.table_cards)
        hand == g.players[player_idx].hand
        m == map_defenses(hand, selected_cards, g.trump_suit, und, <<>>, <<>>)
    IN  IF und = <<>> \/ Len(selected_cards) # Len(und)
        THEN [gs |-> g, op |-> "none", pre |-> g, cards |-> <<>>, res |-> "Ok"]
        ELSE IF m = None
        THEN [gs |-> take_cards(g).gs, op |-> "take_cards", pre |-> g,
              cards |-> <<>>, res |-> take_cards(g).res]
        ELSE LET cards_to_discard ==
                     [i \in 1 .. Len(m[1]) |-> <<m[1][i][1], m[1][i][3]>>]
                 g1 == [g EXCEPT !.players[player_idx].hand = remove_mapped(@, m[1])]
             IN  [gs |-> discard_cards(g1, cards_to_discard), op |-> "discard_cards",
                  pre |-> g1, cards |-> cards_to_discard, res |-> "Ok"]

\* ------------------------------------------------- positions of a hand
\* Every starting position is the result of calls of the operations above on
\* the constructed state, so it is a state the program reaches.

\* seat s plays its first card and the table is swept to the discard pile
Burn(g, s) == force_attack_phase(attack(g, 0, s).gs)

\* seat s plays cards until it holds at most n
RECURSIVE BurnTo(_, _, _)
BurnTo(g, s, n) ==
    IF hand_size(g.players[s].hand) <= n THEN g
    ELSE BurnTo(Burn(g, s), s, n)

\* the attacker attacks with its first card, the defender takes, cards are drawn
TakeRound(g) ==
    draw_cards(take_cards(attack(g, 0, g.current_attacker).gs).gs)

\* the attacker plays down to j cards, attacks, the defender takes, the
\* attacker draws HandTarget - j + 1 cards; the taker then plays one card
DrawRound(g, j) ==
    LET g1 == TakeRound(BurnTo(g, g.current_attacker, j))
    IN  Burn(g1, g1.current_defender)

\* rounds are played until the deck holds at most d cards
RECURSIVE DrawDown(_, _)
DrawDown(g, d) ==
    LET need == Len(g.deck.cards) - d
    IN  IF need <= 0 THEN g
        ELSE DrawDown(DrawRound(g, IF need >= HandTarget THEN 1
                                   ELSE HandTarget + 1 - need), d)

\* the seats s, s + 1, ... play down to their hand sizes h[s]
RECURSIVE BurnAll(_, _, _)
BurnAll(g, h, s) ==
    IF s >= NumPlayers(g) THEN g
    ELSE BurnAll(BurnTo(g, s, h[s]), h, s + 1)

\* a hand in progress: n seats, shuffle outcome k, d cards left in the deck,
\* seat s holding h[s] cards
InProgress(n, k, d, h) ==
    BurnAll(DrawDown(setup_game(NewGame(n), k), d), h, 0)

\* ------------------------------------------------------------ AI strategies
\* Rank and Suit discriminants the strategies compare with
Ten == 4
Jack == 5
Queen == 6
Ace == 8
Spades == 3

\* the outcomes of the calls of rand::random in one strategy call, in the order
\* of the calls: rnd[i] is true when the i-th comparison `random < p` holds
Draws == [1 .. 2 -> BOOLEAN]

\* Iterator::min_by_key over the hand positions S: the first position with
\* the least key
min_by_key(S, key(_)) ==
    CHOOSE i \in S : \A j \in S : key(i) < key(j) \/ (key(i) = key(j) /\ i <= j)

\* Some(vec![(idx, card)]) for the hand position i
one_card(hand, i) == Some(<<(<<i - 1, hand[i]>>)>>)

\* the attack cards of the undefended table entries, in table order
undefended_cards(table) ==
    LET und == undefended_attacks(table)
    IN  [i \in 1 .. Len(und) |-> und[i][2]]

\* the ranks on the table, of attack and of defense cards
table_ranks(table) ==
    {table[i][1].rank : i \in 1 .. Len(table)}
    \cup {table[i][2][1].rank : i \in {j \in 1 .. Len(table) : table[j][2] # None}}

\* some table entry is defended with a trump
defender_used_trump(table, trump_suit) ==
    \E i \in 1 .. Len(table) :
        table[i][2] # None /\ trump_suit # None /\ table[i][2][1].suit = trump_suit[1]

\* the key `if trump { 100 + rank } else { rank }`
trump_last(card, trump_suit) ==
    IF card.suit = trump_suit THEN 100 + card.rank ELSE card.rank

\* the hand positions whose card can beat the attack card
beaters(hand, attack_card, trump_suit) ==
    {i \in 1 .. Len(hand) : can_beat(hand[i], attack_card, trump_suit)}

\* should_take_cards that only flips the coin
easy_should_take_cards_mut(g, player_idx, rnd) == rnd[1]

\* EasyStrategy::should_take_cards
easy_should_take_cards(g, player_idx, rnd) ==
    LET hand == g.players[player_idx].hand
        trump_suit == g.trump_suit[1]
        und == undefended_cards(g.table_cards)
    IN  IF \E k \in 1 .. Len(und) : beaters(hand, und[k], trump_suit) = {}
        THEN TRUE
        ELSE rnd[1]

\* EasyStrategy::make_attack_move
easy_make_attack_move(g, player_idx, rnd) ==
    LET hand == g.players[player_idx].hand
        matching == {i \in 1 .. Len(hand) : hand[i].rank \in table_ranks(g.table_cards)}
        card_value(i) == IF g.trump_suit = Some(hand[i].suit)
                         THEN 100 + hand[i].rank ELSE hand[i].rank
    IN  IF hand = <<>> THEN None
        ELSE IF g.table_cards # <<>> /\ matching # {}
        THEN one_card(hand, min_by_key(matching, LAMBDA i : 0))
        ELSE one_card(hand, min_by_key(1 .. Len(hand), card_value))

\* make_defense_move that gives up when no card of the attack's suit beats it
easy_make_defense_move_mut(g, player_idx, rnd) ==
    LET hand == g.players[player_idx].hand
        trump_suit == g.trump_suit[1]
        und == first_undefended(g.table_cards)
        attack_card == g.table_cards[und[1] + 1][1]
        same_suit_defenses ==
            {i \in 1 .. Len(hand) : /\ hand[i].suit = attack_card.suit
                                    /\ hand[i].rank > attack_card.rank}
    IN  IF und = None THEN None
        ELSE IF same_suit_defenses # {}
        THEN one_card(hand, min_by_key(same_suit_defenses, LAMBDA i : hand[i].rank))
        ELSE None

\* make_defense_move that answers with the lowest card that beats the attack,
\* trump or not
easy_make_defense_lowest(g, player_idx, rnd) ==
    LET hand == g.players[player_idx].hand
        und == first_undefended(g.table_cards)
        attack_card == g.table_cards[und[1] + 1][1]
        defenses == beaters(hand, attack_card, g.trump_suit[1])
    IN  IF und = None \/ defenses = {} THEN None
        ELSE one_card(hand, min_by_key(defenses, LAMBDA i : hand[i].rank))

\* EasyStrategy::make_defense_move
easy_make_defense_move(g, player_idx, rnd) ==
    LET hand == g.players[player_idx].hand
        trump_suit == g.trump_suit[1]
        und == first_undefended(g.table_cards)
        attack_card == g.table_cards[und[1] + 1][1]
        non_trump_defenses ==
            {i \in 1 .. Len(hand) : /\ hand[i].suit = attack_card.suit
                                    /\ hand[i].suit # trump_suit
                                    /\ hand[i].rank > attack_card.rank}
        trump_defenses ==
            {i \in 1 .. Len(hand) :
                \/ hand[i].suit = trump_suit /\ attack_card.suit # trump_suit
                \/ /\ hand[i].suit = trump_suit
                   /\ attack_card.suit = trump_suit
                   /\ hand[i].rank > attack_card.rank}
        by_rank(i) == hand[i].rank
    IN  IF und = None THEN None
        ELSE IF non_trump_defenses # {}
        THEN one_card(hand, min_by_key(non_trump_defenses, by_rank))
        ELSE IF trump_defenses # {}
        THEN one_card(hand, min_by_key(trump_defenses, by_rank))
        ELSE None

\* MediumStrategy::should_take_cards : the counts of its loop over the
\* undefended attacks, [unbeatable, trump_cards_needed, high_trumps_needed]
medium_take_counts(hand, und, trump_suit) ==
    LET possible_defenses(k) == beaters(hand, und[k], trump_suit)
        requires_trump(k) == \A i \in possible_defenses(k) : hand[i].suit = trump_suit
        requires_high_trump(k) ==
            \A i \in possible_defenses(k) : hand[i].suit = trump_suit => hand[i].rank >= Jack
        all == 1 .. Len(und)
    IN  [unbeatable |-> \E k \in all : possible_defenses(k) = {},
         trump_cards_needed |-> Cardinality({k \in all : requires_trump(k)}),
         high_trumps_needed |->
             Cardinality({k \in all : requires_trump(k) /\ requires_high_trump(k)})]

\* should_take_cards that gives up only what it cannot beat, or on the draw
\* when two trumps are needed
medium_should_take_cards_mut(g, player_idx, rnd) ==
    LET und == undefended_cards(g.table_cards)
        c == medium_take_counts(g.players[player_idx].hand, und, g.trump_suit[1])
    IN  und # <<>> /\ (c.unbeatable \/ (c.trump_cards_needed >= 2 /\ rnd[1]))

\* MediumStrategy::should_take_cards
medium_should_take_cards(g, player_idx, rnd) ==
    LET hand == g.players[player_idx].hand
        trump_suit == g.trump_suit[1]
        und == undefended_cards(g.table_cards)
        c == medium_take_counts(hand, und, trump_suit)
    IN  IF und = <<>> THEN FALSE
        ELSE IF c.unbeatable THEN TRUE
        ELSE IF c.high_trumps_needed > 0 THEN TRUE
        ELSE IF c.trump_cards_needed >= 2 /\ rnd[1] THEN TRUE
        ELSE IF Len(und) >= 4 THEN TRUE
        ELSE FALSE

\* the hand positions grouped by rank: the ranks held at least twice
paired_ranks(hand) ==
    {r \in Ranks : Cardinality({i \in 1 .. Len(hand) : hand[i].rank = r}) >= 2}

\* an initial attack that leads the lowest card by rank, trump or not
medium_initial_attack_mut(hand, trump_suit) ==
    one_card(hand, min_by_key(1 .. Len(hand), LAMBDA i : hand[i].rank))

\* MediumStrategy::make_attack_move, the initial attack
medium_initial_attack(hand, trump_suit) ==
    LET is_non_trump(i) == trump_suit # Some(hand[i].suit)
        group(r) == {i \in 1 .. Len(hand) : hand[i].rank = r}
        non_trump_pairs == {r \in paired_ranks(hand) : \E i \in group(r) : is_non_trump(i)}
        lowest_pair == CHOOSE r \in non_trump_pairs : \A q \in non_trump_pairs : r <= q
        non_trumps == {i \in 1 .. Len(hand) : is_non_trump(i)}
        by_rank(i) == hand[i].rank
    IN  IF non_trump_pairs # {}
        THEN one_card(hand, min_by_key({i \in group(lowest_pair) : is_non_trump(i)}, by_rank))
        ELSE IF non_trumps # {}
        THEN one_card(hand, min_by_key(non_trumps, by_rank))
        ELSE one_card(hand, min_by_key(1 .. Len(hand), by_rank))

\* MediumStrategy::make_attack_move, adding to an attack; rnd[1] is
\* stop_adding, rnd[2] is add_trump
medium_add_attack(hand, table, trump_suit, rnd) ==
    LET valid_ranks == table_ranks(table)
        matching_non_trumps ==
            {i \in 1 .. Len(hand) :
                hand[i].rank \in valid_ranks /\ trump_suit # Some(hand[i].suit)}
        matching_trumps ==
            {i \in 1 .. Len(hand) :
                hand[i].rank \in valid_ranks /\ trump_suit = Some(hand[i].suit)}
        by_rank(i) == hand[i].rank
    IN  IF rnd[1] THEN Some(<<>>)
        ELSE IF matching_non_trumps # {}
        THEN one_card(hand, min_by_key(matching_non_trumps, by_rank))
        ELSE IF defender_used_trump(table, trump_suit) /\ rnd[2] /\ matching_trumps # {}
        THEN one_card(hand, min_by_key(matching_trumps, by_rank))
        ELSE Some(<<>>)

\* MediumStrategy::make_attack_move
medium_make_attack_move(g, player_idx, rnd) ==
    LET hand == g.players[player_idx].hand
    IN  IF hand = <<>> THEN None
        ELSE IF g.table_cards # <<>>
        THEN medium_add_attack(hand, g.table_cards, g.trump_suit, rnd)
        ELSE medium_initial_attack(hand, g.trump_suit)

\* MediumStrategy::make_defense_move; rnd[1] is pass_chance < 0.3, rnd[2] is
\* use_trump_strategically
medium_make_defense_move(g, player_idx, rnd) ==
    LET hand == g.players[player_idx].hand
        trump_suit == g.trump_suit[1]
        und == first_undefended(g.table_cards)
        attacking_card == g.table_cards[und[1] + 1][1]
        possible_passes == {i \in 1 .. Len(hand) : can_pass(hand[i], attacking_card)}
        valid_defenses == beaters(hand, attacking_card, trump_suit)
        is_high_value ==
            \/ attacking_card.rank >= Jack
            \/ attacking_card.suit = trump_suit /\ attacking_card.rank >= Ten
        trump_defenses == {i \in valid_defenses : hand[i].suit = trump_suit}
        non_trump_defenses == {i \in valid_defenses : hand[i].suit # trump_suit}
        by_rank(i) == hand[i].rank
    IN  IF und = None THEN None
        ELSE IF possible_passes # {} /\ rnd[1]
        THEN one_card(hand, min_by_key(possible_passes,
                                       LAMBDA i : trump_last(hand[i], trump_suit)))
        ELSE IF valid_defenses = {} THEN None
        ELSE IF is_high_value /\ rnd[2] /\ trump_defenses # {}
        THEN one_card(hand, min_by_key(trump_defenses, by_rank))
        ELSE IF non_trump_defenses # {}
        THEN one_card(hand, min_by_key(non_trump_defenses, by_rank))
        ELSE one_card(hand, min_by_key(trump_defenses, by_rank))

\* HardStrategy::should_take_cards, the defense plan: the undefended attacks
\* from the k-th on are answered in order, each with the lowest unused
\* non-trump card that beats it, else the lowest unused trump; used holds the
\* cards of the plan so far.  [covered, valuable_cards_used, high_trumps_used]
RECURSIVE hard_defense_plan(_, _, _, _, _, _, _)
hard_defense_plan(hand, und, trump_suit, k, used, valuable, high) ==
    IF k > Len(und)
    THEN [covered |-> TRUE, valuable_cards_used |-> valuable, high_trumps_used |-> high]
    ELSE LET possible_defenses ==
                 {i \in beaters(hand, und[k], trump_suit) : hand[i] \notin used}
             non_trump == {i \in possible_defenses : hand[i].suit # trump_suit}
             by_rank(i) == hand[i].rank
             pick == IF non_trump # {} THEN min_by_key(non_trump, by_rank)
                     ELSE min_by_key(possible_defenses, by_rank)
             card == hand[pick]
         IN  IF possible_defenses = {}
             THEN [covered |-> FALSE, valuable_cards_used |-> valuable,
                   high_trumps_used |-> high]
             ELSE hard_defense_plan(
                      hand, und, trump_suit, k + 1, used \cup {card},
                      IF card.suit = trump_suit \/ card.rank >= Jack
                      THEN valuable + 1 ELSE valuable,
                      IF card.suit = trump_suit /\ card.rank >= Jack
                      THEN high + 1 ELSE high)

\* should_take_cards that defends against a nearly-empty opponent in the
\* endgame whatever the plan costs
hard_should_take_cards_mut(g, player_idx, rnd) ==
    LET hand == g.players[player_idx].hand
        trump_suit == g.trump_suit[1]
        und == undefended_cards(g.table_cards)
        plan == hard_defense_plan(hand, und, trump_suit, 1, {}, 0, 0)
        valuable_cards_used == plan.valuable_cards_used
        high_trumps_used == plan.high_trumps_used
        is_high_trump(c) == c.suit = trump_suit /\ c.rank >= Jack
        is_endgame == deck_is_empty(g.deck) \/ Len(g.deck.cards) <= 2
        high_trumps_played ==
            Cardinality({i \in 1 .. Len(g.discard_pile) : is_high_trump(g.discard_pile[i])})
        holding_last_high_trumps ==
            high_trumps_used >= Cardinality({i \in 1 .. Len(hand) : is_high_trump(hand[i])})
        cards_to_take == Len(g.table_cards)
        new_hand_size == hand_size(hand) + cards_to_take
        hand_limit == HandTarget
        opponent_idx == IF player_idx = g.current_defender
                        THEN g.current_attacker ELSE g.current_defender
        opponent_card_count == hand_size(g.players[opponent_idx].hand)
    IN  IF und = <<>> THEN FALSE
        ELSE IF \E k \in 1 .. Len(und) : beaters(hand, und[k], trump_suit) = {} THEN TRUE
        ELSE IF ~ plan.covered THEN TRUE
        ELSE IF /\ is_endgame /\ high_trumps_used > 0
                /\ holding_last_high_trumps /\ high_trumps_played < 4
        THEN TRUE
        ELSE IF new_hand_size > hand_limit + 2 /\ valuable_cards_used < 2 THEN FALSE
        ELSE IF is_endgame /\ opponent_card_count <= 2 THEN FALSE
        ELSE \/ valuable_cards_used >= 2
             \/ high_trumps_used >= 1 /\ is_endgame
             \/ cards_to_take <= 2 /\ new_hand_size <= hand_limit

\* HardStrategy::should_take_cards
hard_should_take_cards(g, player_idx, rnd) ==
    LET hand == g.players[player_idx].hand
        trump_suit == g.trump_suit[1]
        und == undefended_cards(g.table_cards)
        plan == hard_defense_plan(hand, und, trump_suit, 1, {}, 0, 0)
        valuable_cards_used == plan.valuable_cards_used
        high_trumps_used == plan.high_trumps_used
        is_high_trump(c) == c.suit = trump_suit /\ c.rank >= Jack
        is_endgame == deck_is_empty(g.deck) \/ Len(g.deck.cards) <= 2
        high_trumps_played ==
            Cardinality({i \in 1 .. Len(g.discard_pile) : is_high_trump(g.discard_pile[i])})
        holding_last_high_trumps ==
            high_trumps_used >= Cardinality({i \in 1 .. Len(hand) : is_high_trump(hand[i])})
        cards_to_take == Len(g.table_cards)
        new_hand_size == hand_size(hand) + cards_to_take
        hand_limit == HandTarget
        opponent_idx == IF player_idx = g.current_defender
                        THEN g.current_attacker ELSE g.current_defender
        opponent_card_count == hand_size(g.players[opponent_idx].hand)
    IN  IF und = <<>> THEN FALSE
        ELSE IF \E k \in 1 .. Len(und) : beaters(hand, und[k], trump_suit) = {} THEN TRUE
        ELSE IF ~ plan.covered THEN TRUE
        ELSE IF /\ is_endgame /\ high_trumps_used > 0
                /\ holding_last_high_trumps /\ high_trumps_played < 4
        THEN TRUE
        ELSE IF new_hand_size > hand_limit + 2 /\ valuable_cards_used < 2 THEN FALSE
        ELSE IF is_endgame /\ opponent_card_count <= 2 /\ valuable_cards_used <= 1 THEN FALSE
        ELSE \/ valuable_cards_used >= 2
             \/ high_trumps_used >= 1 /\ is_endgame
             \/ cards_to_take <= 2 /\ new_hand_size <= hand_limit

\* adding to an attack without the look at the ranks already played: the
\* lowest non-trump of a rank on the table, else the lowest card of such a rank
hard_add_attack_mut(hand, table, discard_pile, trump_suit, rnd) ==
    LET matching_cards == {i \in 1 .. Len(hand) : hand[i].rank \in table_ranks(table)}
        non_trump_matches == {i \in matching_cards : trump_suit # Some(hand[i].suit)}
        by_rank(i) == hand[i].rank
    IN  IF matching_cards = {} THEN Some(<<>>)
        ELSE IF non_trump_matches # {}
        THEN one_card(hand, min_by_key(non_trump_matches, by_rank))
        ELSE one_card(hand, min_by_key(matching_cards, by_rank))

\* HardStrategy::make_attack_move, adding to an attack (Plan A); rnd[1] is
\* the draw of add_trump
hard_add_attack(hand, table, discard_pile, trump_suit, rnd) ==
    LET valid_ranks == table_ranks(table)
        trump_or_spades == IF trump_suit = None THEN Spades ELSE trump_suit[1]
        rank_card_count(r) ==
            Cardinality({i \in 1 .. Len(discard_pile) : discard_pile[i].rank = r})
            + Cardinality({i \in 1 .. Len(table) : table[i][1].rank = r})
            + Cardinality({i \in 1 .. Len(table) :
                              table[i][2] # None /\ table[i][2][1].rank = r})
        probable_weak_ranks == {r \in valid_ranks : rank_card_count(r) >= 2}
        weak_matching ==
            {i \in 1 .. Len(hand) :
                /\ hand[i].rank \in probable_weak_ranks
                /\ ~ (hand[i].suit = trump_or_spades /\ hand[i].rank >= Jack)}
        matching_cards == {i \in 1 .. Len(hand) : hand[i].rank \in valid_ranks}
        matching_trumps == {i \in matching_cards : trump_suit = Some(hand[i].suit)}
        non_trump_matches == {i \in matching_cards : trump_suit # Some(hand[i].suit)}
        by_rank(i) == hand[i].rank
    IN  IF weak_matching # {}
        THEN one_card(hand, min_by_key(weak_matching,
                                       LAMBDA i : trump_last(hand[i], trump_or_spades)))
        ELSE IF matching_cards = {} THEN Some(<<>>)
        ELSE IF defender_used_trump(table, trump_suit) /\ matching_trumps # {} /\ rnd[1]
        THEN one_card(hand, min_by_key(matching_trumps, by_rank))
        ELSE IF non_trump_matches # {}
        THEN one_card(hand, min_by_key(non_trump_matches, by_rank))
        ELSE one_card(hand, min_by_key(matching_cards, by_rank))

\* HardStrategy::make_attack_move, the initial attack (Plan B)
hard_initial_attack(hand, trump_suit, deck_empty, defender_hand_size) ==
    LET trump_or_spades == IF trump_suit = None THEN Spades ELSE trump_suit[1]
        all == 1 .. Len(hand)
        forcing_cards ==
            {i \in all : \/ hand[i].suit = trump_or_spades /\ hand[i].rank >= Ten
                         \/ hand[i].rank >= Ace}
        group(r) == {i \in all : hand[i].rank = r}
        non_high_trump_pairs ==
            {r \in paired_ranks(hand) :
                ~ \A i \in group(r) : hand[i].suit = trump_or_spades /\ hand[i].rank >= Jack}
        lowest_pair == CHOOSE r \in non_high_trump_pairs :
                           \A q \in non_high_trump_pairs : r <= q
        pair_non_trump == {i \in group(lowest_pair) : trump_suit # Some(hand[i].suit)}
        non_trumps == {i \in all : trump_suit # Some(hand[i].suit)}
        by_rank(i) == hand[i].rank
    IN  IF deck_empty /\ defender_hand_size <= 2 /\ forcing_cards # {}
        THEN one_card(hand, min_by_key(forcing_cards, by_rank))
        ELSE IF non_high_trump_pairs # {}
        THEN one_card(hand, min_by_key(IF pair_non_trump # {} THEN pair_non_trump
                                       ELSE group(lowest_pair), by_rank))
        ELSE IF non_trumps # {}
        THEN one_card(hand, min_by_key(non_trumps, by_rank))
        ELSE one_card(hand, min_by_key(all, by_rank))

\* HardStrategy::make_attack_move
hard_make_attack_move(g, player_idx, rnd) ==
    LET hand == g.players[player_idx].hand
    IN  IF hand = <<>> THEN None
        ELSE IF g.table_cards # <<>>
        THEN hard_add_attack(hand, g.table_cards, g.discard_pile, g.trump_suit, rnd)
        ELSE hard_initial_attack(hand, g.trump_suit, deck_is_empty(g.deck),
                                 hand_size(g.players[g.current_defender].hand))

\* HardStrategy::make_defense_move; rnd[1] is the draw of the strategic pass
hard_make_defense_move(g, player_idx, rnd) ==
    LET hand == g.players[player_idx].hand
        trump_suit == g.trump_suit[1]
        is_endgame == deck_is_empty(g.deck)
        und == first_undefended(g.table_cards)
        attack_card == g.table_cards[und[1] + 1][1]
        possible_passes == {i \in 1 .. Len(hand) : can_pass(hand[i], attack_card)}
        safe_passes ==
            {i \in possible_passes :
                /\ ~ (hand[i].suit = trump_suit /\ hand[i].rank >= Jack)
                /\ hand[i].rank # Ace}
        valid_defenses == beaters(hand, attack_card, trump_suit)
        non_trump_defenses == {i \in valid_defenses : hand[i].suit # trump_suit}
        trump_defenses == {i \in valid_defenses : hand[i].suit = trump_suit}
        is_high_value_attack ==
            \/ attack_card.rank >= Queen
            \/ attack_card.suit = trump_suit /\ attack_card.rank >= Ten
        low_trump_defense == {i \in trump_defenses : hand[i].rank < Jack}
        by_rank(i) == hand[i].rank
    IN  IF und = None THEN None
        ELSE IF safe_passes # {} /\ rnd[1]
        THEN one_card(hand, min_by_key(safe_passes,
                                       LAMBDA i : trump_last(hand[i], trump_suit)))
        ELSE IF possible_passes # {} /\ safe_passes = {}
        THEN one_card(hand, min_by_key(possible_passes, by_rank))
        ELSE IF valid_defenses = {}
        THEN IF possible_passes # {}
             THEN one_card(hand, min_by_key(possible_passes, LAMBDA i : 0))
             ELSE None
        ELSE IF non_trump_defenses # {}
        THEN one_card(hand, min_by_key(non_trump_defenses, by_rank))
        ELSE IF is_endgame /\ ~ is_high_value_attack /\ low_trump_defense # {}
        THEN one_card(hand, min_by_key(low_trump_defense, by_rank))
        ELSE one_card(hand, min_by_key(trump_defenses, by_rank))

\* AiDifficulty
Tiers == {"Easy", "Medium", "Hard"}

\* AiPlayer::should_take_cards : the strategy of the tier decides
should_take_cards(tier, g, player_idx, rnd) ==
    CASE tier = "Easy" -> easy_should_take_cards(g, player_idx, rnd)
      [] tier = "Medium" -> medium_should_take_cards(g, player_idx, rnd)
      [] tier = "Hard" -> hard_should_take_cards(g, player_idx, rnd)

\* AiPlayer::make_attack_move
make_attack_move(tier, g, player_idx, rnd) ==
    CASE tier = "Easy" -> easy_make_attack_move(g, player_idx, rnd)
      [] tier = "Medium" -> medium_make_attack_move(g, player_idx, rnd)
      [] tier = "Hard" -> hard_make_attack_move(g, player_idx, rnd)

\* AiPlayer::make_defense_move
make_defense_move(tier, g, player_idx, rnd) ==
    CASE tier = "Easy" -> easy_make_defense_move(g, player_idx, rnd)
      [] tier = "Medium" -> medium_make_defense_move(g, player_idx, rnd)
      [] tier = "Hard" -> hard_make_defense_move(g, player_idx, rnd)

\* ------------------------------------------------------------------ state
VARIABLES
    game_state,   \* the GameState
    last,         \* the last call: operation, arguments, result, state before
    ops,          \* calls made since the starting position
    ai_turn,      \* the call of process_ai_turn in progress, if any
    ai_player     \* the tier of the AiPlayer of the App

vars == <<game_state, last, ops, ai_turn, ai_player>>

\* ai_turn: pc is "idle" before, "loop" during and "done" after a call of
\* process_ai_turn, turn_counter is its loop counter, und and steps are the
\* undefended entries found and the rounds made by the last defense loop
AiIdle == [pc |-> "idle", turn_counter |-> 0, und |-> 0, steps |-> 0, capped |-> FALSE]

\* last: op and res name the last call and its result, card_idx, player_idx
\* and cards are its arguments, pre is the GameState it was applied to, and
\* prev names the call before it
NoCall(g) == [op |-> "none", card_idx |-> -1, player_idx |-> -1, cards |-> <<>>,
              res |-> "Ok", pre |-> g, prev |-> [op |-> "none", res |-> "Ok"]]

CallOn(g, name, card_idx, player_idx, cards, res) ==
    [op |-> name, card_idx |-> card_idx, player_idx |-> player_idx,
     cards |-> cards, res |-> res, pre |-> g,
     prev |-> [op |-> last.op, res |-> last.res]]

Call(name, card_idx, player_idx, res) ==
    CallOn(game_state, name, card_idx, player_idx, <<>>, res)

Seats == DOMAIN game_state.players

\* hand indices tried for a hand: the valid ones up to MaxIdx, the last valid
\* one and the first invalid one
IdxInputs(hand) ==
    {i \in (0 .. MaxIdx) \cup {Len(hand) - 1} : 0 <= i /\ i < Len(hand)}
    \cup {Len(hand)}

InitConstructed ==
    \E n \in 2 .. MaxSeats :
        /\ game_state = NewGame(n)
        /\ last = NoCall(game_state)
        /\ ops = 0
        /\ ai_turn = AiIdle

InitInProgress ==
    \E n \in 2 .. MaxSeats, k \in ShuffleIds, d \in 0 .. MaxDeckLeft :
        \E h \in [0 .. (n - 1) -> (HandTarget - MaxBurn) .. HandTarget] :
            /\ game_state = InProgress(n, k, d, h)
            /\ last = NoCall(game_state)
            /\ ops = 0
            /\ ai_turn = AiIdle

\* the end of a hand: the deck is used up and every seat is down to at most
\* MaxEndHand cards
InitEndgame ==
    \E n \in 2 .. MaxSeats, k \in ShuffleIds :
        \E h \in [0 .. (n - 1) -> 0 .. MaxEndHand] :
            /\ game_state = InProgress(n, k, 0, h)
            /\ last = NoCall(game_state)
            /\ ops = 0
            /\ ai_turn = AiIdle

\* App::new builds the AiPlayer of the Medium tier
Init ==
    /\ InitConstructed \/ InitInProgress \/ InitEndgame
    /\ ai_player = "Medium"

\* the process is alive (no assertion has aborted it) and within the horizon
Running == last.res # "panic" /\ ops < MaxOps /\ ai_turn.pc = "idle"

\* setup_game: start_game_action, from the menu or as 'new game' once over
SetupGame ==
    /\ Running
    /\ game_state.game_phase \in {"Setup", "GameOver"}
    /\ \E k \in ShuffleIds :
          /\ game_state' = setup_game(game_state, k)
          /\ last' = Call("setup_game", k, -1, "Ok")
    /\ ops' = ops + 1
    /\ UNCHANGED <<ai_turn, ai_player>>

Attack ==
    /\ Running
    /\ \E player_idx \in Seats :
         \E card_idx \in IdxInputs(game_state.players[player_idx].hand) :
            LET r == attack(game_state, card_idx, player_idx)
            IN  /\ game_state' = r.gs
                /\ last' = Call("attack", card_idx, player_idx, r.res)
    /\ ops' = ops + 1
    /\ UNCHANGED <<ai_turn, ai_player>>

Defend ==
    /\ Running
    /\ \E card_idx \in IdxInputs(game_state.players[game_state.current_defender].hand) :
            LET r == defend(game_state, card_idx)
            IN  /\ game_state' = r.gs
                /\ last' = Call("defend", card_idx, -1, r.res)
    /\ ops' = ops + 1
    /\ UNCHANGED <<ai_turn, ai_player>>

TakeCards ==
    /\ Running
    /\ LET r == take_cards(game_state)
       IN  /\ game_state' = r.gs
           /\ last' = Call("take_cards", -1, -1, r.res)
    /\ ops' = ops + 1
    /\ UNCHANGED <<ai_turn, ai_player>>

\* the defenses found on the table, as the callers of discard_cards collect them
table_defenses(table) ==
    LET RECURSIVE collect(_)
        collect(i) == IF i > Len(table) THEN <<>>
                      ELSE (IF table[i][2] # None
                            THEN <<(<<i - 1, table[i][2][1]>>)>> ELSE <<>>)
                           \o collect(i + 1)
    IN  collect(1)

DiscardCards ==
    /\ Running
    /\ LET cards == table_defenses(game_state.table_cards)
       IN  /\ game_state' = discard_cards(game_state, cards)
           /\ last' = CallOn(game_state, "discard_cards", -1, -1, cards, "Ok")
    /\ ops' = ops + 1
    /\ UNCHANGED <<ai_turn, ai_player>>

DrawCards ==
    /\ Running
    /\ game_state' = draw_cards(game_state)
    /\ last' = Call("draw_cards", -1, -1, "Ok")
    /\ ops' = ops + 1
    /\ UNCHANGED <<ai_turn, ai_player>>

CheckGameOver ==
    /\ Running
    /\ LET r == check_game_over(game_state)
       IN  /\ game_state' = r.gs
           /\ last' = Call("check_game_over", -1, -1, IF r.ret THEN "true" ELSE "false")
    /\ ops' = ops + 1
    /\ UNCHANGED <<ai_turn, ai_player>>

\* force_attack_phase is a recovery helper: each of its callers
\* (acknowledge_draw_action, process_ai_turn) tests for the Drawing phase first
ForceAttackPhase ==
    /\ Running
    /\ game_state.game_phase = "Drawing"
    /\ game_state' = force_attack_phase(game_state)
    /\ last' = Call("force_attack_phase", -1, -1, "Ok")
    /\ ops' = ops + 1
    /\ UNCHANGED <<ai_turn, ai_player>>

\* the selections tried: one or two distinct valid hand indices
Selections(hand) ==
    LET valid == {i \in IdxInputs(hand) : i < Len(hand)}
    IN  {<<i>> : i \in valid}
        \cup {<<i, j>> : <<i, j>> \in {x \in valid \X valid : x[1] # x[2]}}

\* handle_multi_defense as handle_defense_phase calls it: in the Defense phase,
\* for the human defender, with a non-empty selection
HandleMultiDefense ==
    /\ Running
    /\ game_state.game_phase = "Defense"
    /\ game_state.players[game_state.current_defender].player_type = "Human"
    /\ \E sel \in Selections(game_state.players[game_state.current_defender].hand) :
          LET r == handle_multi_defense(game_state, game_state.current_defender, sel)
          IN  /\ game_state' = r.gs
              /\ last' = IF r.op = "none"
                         THEN Call("handle_multi_defense", -1,
                                   game_state.current_defender, "Ok")
                         ELSE CallOn(r.pre, r.op, -1, -1, r.cards, r.res)
    /\ ops' = ops + 1
    /\ UNCHANGED <<ai_turn, ai_player>>

\* ------------------------------------------------------------ AI turn
\* MAX_TURNS of process_ai_turn
MaxTurns == 10

\* App::current_player_index
current_player_index(g) ==
    IF g.game_phase = "Defense" THEN g.current_defender ELSE g.current_attacker

\* App::find_card_index_in_hand : 0-based index of the first equal card
find_card_index_in_hand(hand, card) ==
    LET idxs == {i \in 1 .. Len(hand) : hand[i] = card}
    IN  IF idxs = {} THEN None
        ELSE Some((CHOOSE i \in idxs : \A j \in idxs : i <= j) - 1)

\* app.ai_player.make_attack_move : what the strategy of the App can return
ai_attack_moves(g, player_idx) ==
    {make_attack_move(ai_player, g, player_idx, rnd) : rnd \in Draws}

\* app.ai_player.make_defense_move : what the strategy of the App can return
ai_defense_moves(g, player_idx) ==
    {make_defense_move(ai_player, g, player_idx, rnd) : rnd \in Draws}

\* the hand indices of a move, highest first
RECURSIVE sorted_indices(_)
sorted_indices(idxs) ==
    IF idxs = {} THEN <<>>
    ELSE LET m == CHOOSE i \in idxs : \A j \in idxs : i >= j
         IN  <<m>> \o sorted_indices(idxs \ {m})

\* the loop of attacks of handle_ai_attack and multi_attack from the k-th
\* index on: [gs, res], stopping at the first failure
RECURSIVE attack_each(_, _, _, _)
attack_each(g, idxs, k, player_idx) ==
    IF k > Len(idxs) THEN Ok(g)
    ELSE LET r == attack(g, idxs[k], player_idx)
         IN  IF r.res = "Ok" THEN attack_each(r.gs, idxs, k + 1, player_idx) ELSE r

\* the 0-based indices of a selection as a set
index_set(selected_cards) == {selected_cards[i] : i \in 1 .. Len(selected_cards)}

\* App::valid_multi_attack
valid_multi_attack(g, player_idx, selected_cards) ==
    LET hand == g.players[player_idx].hand
        first_rank == hand[selected_cards[1] + 1].rank
        defender == g.current_defender
    IN  IF selected_cards = <<>> THEN FALSE
        ELSE IF \E idx \in index_set(selected_cards) : idx >= Len(hand) THEN FALSE
        ELSE IF defender >= NumPlayers(g) THEN FALSE
        ELSE IF Len(selected_cards) > hand_size(g.players[defender].hand) THEN FALSE
        ELSE \A idx \in index_set(selected_cards) : hand[idx + 1].rank = first_rank

\* multi_attack that plays the cards in the order they were selected
multi_attack_mut(g, player_idx, selected_cards) ==
    IF valid_multi_attack(g, player_idx, selected_cards) /\ g.game_phase = "Attack"
    THEN attack_each(g, selected_cards, 1, player_idx)
    ELSE Err(g, "Selected cards have different ranks")

\* App::multi_attack
multi_attack(g, player_idx, selected_cards) ==
    IF selected_cards = <<>> THEN Err(g, "No cards selected")
    ELSE IF g.game_phase # "Attack" THEN Err(g, "Not in attack phase")
    ELSE IF \E idx \in index_set(selected_cards) :
                idx >= hand_size(g.players[player_idx].hand)
    THEN Err(g, "Invalid card index")
    ELSE IF ~ valid_multi_attack(g, player_idx, selected_cards)
    THEN Err(g, "Selected cards have different ranks")
    ELSE LET r == attack_each(g, sorted_indices(index_set(selected_cards)), 1, player_idx)
         IN  IF r.res = "Ok" THEN r ELSE [r EXCEPT !.res = "Multi-attack failed"]

\* handle_ai_attack : the states it can leave; a successful attack has set the
\* Defense phase, so set_phase_to_defense is never called
handle_ai_attack(g, player_idx) ==
    IF g.game_phase # "Attack" \/ g.current_attacker # player_idx
    THEN {g}
    ELSE {IF m = None \/ m = Some(<<>>) THEN g
          ELSE attack_each(g, sorted_indices({m[1][i][1] : i \in 1 .. Len(m[1])}),
                           1, player_idx).gs :
              m \in ai_attack_moves(g, player_idx)}

\* table_cards.iter().any(|(_, d)| d.is_none())
has_undefended(table) == \E i \in 1 .. Len(table) : table[i][2] = None

\* the defense loop of handle_ai_defense that never gives up: a failed move is
\* followed by another round of the loop
RECURSIVE ai_defense_loop_mut(_, _, _)
ai_defense_loop_mut(g, player_idx, steps) ==
    IF ~ has_undefended(g.table_cards) \/ steps >= MaxTurns
    THEN {[gs |-> g, steps |-> steps, take |-> has_undefended(g.table_cards)]}
    ELSE UNION {
           IF m = None
           THEN ai_defense_loop_mut(g, player_idx, steps + 1)
           ELSE LET r == defend(g, find_card_index_in_hand(
                                      g.players[player_idx].hand, m[1][1][2])[1])
                IN  IF r.res = "Ok" /\ r.gs.current_defender # player_idx
                    THEN {[gs |-> r.gs, steps |-> steps + 1, take |-> FALSE]}
                    ELSE ai_defense_loop_mut(r.gs, player_idx, steps + 1) :
           m \in ai_defense_moves(g, player_idx)}

\* the defense loop of handle_ai_defense: the states it can leave, each with
\* the number of rounds of the loop and whether take_cards follows (the
\* defense failed or an entry is left undefended); every make_defense_move
\* returns None or a list of one card
RECURSIVE ai_defense_loop(_, _, _)
ai_defense_loop(g, player_idx, steps) ==
    IF ~ has_undefended(g.table_cards)
    THEN {[gs |-> g, steps |-> steps, take |-> FALSE]}
    ELSE UNION {
           IF m = None
           THEN {[gs |-> g, steps |-> steps + 1, take |-> TRUE]}
           ELSE LET hand_idx == find_card_index_in_hand(
                                    g.players[player_idx].hand, m[1][1][2])
                    r == defend(g, hand_idx[1])
                IN  IF hand_idx = None \/ r.res # "Ok"
                    THEN {[gs |-> g, steps |-> steps + 1, take |-> TRUE]}
                    ELSE IF r.gs.current_defender # player_idx
                    THEN {[gs |-> r.gs, steps |-> steps + 1, take |-> FALSE]}
                    ELSE IF ~ has_undefended(r.gs.table_cards)
                    THEN {[gs |-> discard_cards(r.gs, table_defenses(r.gs.table_cards)),
                           steps |-> steps + 1, take |-> FALSE]}
                    ELSE ai_defense_loop(r.gs, player_idx, steps + 1) :
           m \in ai_defense_moves(g, player_idx)}

\* handle_ai_defense : the states it can leave, each with the number of
\* undefended entries it found (und) and the rounds of its loop (steps)
handle_ai_defense(g, player_idx) ==
    LET stay == [gs |-> g, und |-> 0, steps |-> 0, take |-> FALSE]
        takes == {should_take_cards(ai_player, g, player_idx, rnd) : rnd \in Draws}
        outs ==
            IF g.game_phase # "Defense" \/ g.current_defender # player_idx
            THEN {stay}
            ELSE (IF TRUE \in takes THEN {[stay EXCEPT !.take = TRUE]} ELSE {})
                 \cup
                 (IF FALSE \notin takes THEN {}
                  ELSE IF g.table_cards = <<>> \/ ~ has_undefended(g.table_cards)
                  THEN {stay}
                  ELSE {[gs |-> o.gs, und |-> Len(undefended_attacks(g.table_cards)),
                         steps |-> o.steps, take |-> o.take] :
                            o \in ai_defense_loop(g, player_idx, 0)})
    IN  {[gs |-> IF o.take THEN take_cards(o.gs).gs ELSE o.gs,
          und |-> o.und, steps |-> o.steps] : o \in outs}

\* the seat is a computer seat
is_computer(g, idx) == g.players[idx].player_type = "Computer"

\* the end of a loop round of process_ai_turn, after the match on the phase:
\* the state it leaves and whether the call returns or the loop goes on
ai_round_end(g, turn_counter) ==
    LET d == IF g.game_phase = "Drawing" THEN draw_cards(g) ELSE g
        g1 == IF g.game_phase = "Drawing" /\ d.game_phase = "Drawing"
              THEN force_attack_phase(d) ELSE d
        c == check_game_over(g1)
    IN  IF /\ g.game_phase = "Drawing"
           /\ g1.game_phase = "Attack"
           /\ ~ is_computer(g1, g1.current_attacker)
        THEN [gs |-> g1, next |-> "return"]
        ELSE IF c.ret
        THEN [gs |-> c.gs, next |-> "return"]
        ELSE IF turn_counter >= MaxTurns - 1
        THEN [gs |-> IF g1.game_phase = "Drawing" THEN force_attack_phase(g1) ELSE g1,
              next |-> "limit"]
        ELSE [gs |-> g1, next |-> "loop"]

\* return if the seat is the human seat, continue if it is a computer seat
return_to_human(g, idx) == IF is_computer(g, idx) THEN "loop" ELSE "return"

\* the match on the phase in process_ai_turn for the computer seat idx, up to
\* the call of draw_cards in its arm: the states it can reach, each with
\* whether draw_cards is called next (draw) and how the arm ends after that:
\* "return", "loop" (continue), "end" (falls out of the match) or "drawn"
\* (the Drawing arm, which decides on the state after draw_cards); und and
\* steps are those of handle_ai_defense and -1 if it was not called
ai_phase_arm(g, idx) ==
    IF g.game_phase = "Attack"
    THEN {[gs |-> g1, und |-> -1, steps |-> -1,
           draw |-> g1.game_phase = "Attack",
           exit |-> IF g1.game_phase = "Defense"
                    THEN return_to_human(g1, g1.current_defender)
                    ELSE "end"] : g1 \in handle_ai_attack(g, idx)}
    ELSE IF g.game_phase = "Defense"
    THEN {[gs |-> o.gs, und |-> o.und, steps |-> o.steps,
           draw |-> \/ o.gs.game_phase = "Defense" /\ o.gs.current_defender = idx
                    \/ o.gs.game_phase = "Drawing",
           exit |-> IF o.gs.game_phase = "Defense" /\ o.gs.current_defender # idx
                    THEN return_to_human(o.gs, o.gs.current_defender)
                    ELSE "end"] : o \in handle_ai_defense(g, idx)}
    ELSE IF g.game_phase = "Drawing"
    THEN {[gs |-> g, und |-> -1, steps |-> -1, draw |-> TRUE, exit |-> "drawn"]}
    ELSE {[gs |-> g, und |-> -1, steps |-> -1, draw |-> FALSE, exit |-> "return"]}

\* one round of the loop of process_ai_turn, turn_counter already incremented:
\* the results it can have
ai_round(g, turn_counter) ==
    LET c == check_game_over(g)
        idx == current_player_index(g)
        finish(m) ==
            LET g2 == IF m.draw THEN draw_cards(m.gs) ELSE m.gs
                exit == IF m.exit = "drawn"
                        THEN IF g2.game_phase = "Attack"
                             THEN return_to_human(g2, g2.current_attacker)
                             ELSE "end"
                        ELSE m.exit
                r == IF exit = "end" THEN ai_round_end(g2, turn_counter)
                     ELSE [gs |-> g2, next |-> exit]
            IN  [gs |-> r.gs, next |-> r.next, und |-> m.und, steps |-> m.steps]
    IN  IF c.ret
        THEN {[gs |-> c.gs, next |-> "return", und |-> -1, steps |-> -1]}
        ELSE IF ~ is_computer(g, idx)
        THEN {[gs |-> g, next |-> "return", und |-> -1, steps |-> -1]}
        ELSE {finish(m) : m \in ai_phase_arm(g, idx)}

\* process_ai_turn is called: by start_game_action after setup_game, and by
\* the key handlers after the human seat has moved
AiStart ==
    /\ ai_turn.pc = "idle"
    /\ last.res # "panic"
    /\ game_state.game_phase # "Setup"
    /\ ai_turn' = [ai_turn EXCEPT !.pc = "loop"]
    /\ last' = CallOn(game_state, "process_ai_turn", -1, -1, <<>>, "Ok")
    /\ UNCHANGED <<game_state, ops, ai_player>>

\* one round of the while loop of process_ai_turn, or its exit once
\* turn_counter has reached MAX_TURNS
AiRound ==
    /\ ai_turn.pc = "loop"
    /\ IF ai_turn.turn_counter < MaxTurns
       THEN \E r \in ai_round(game_state, ai_turn.turn_counter + 1) :
               /\ game_state' = r.gs
               /\ ai_turn' = [pc |-> IF r.next = "loop" THEN "loop" ELSE "done",
                              turn_counter |-> ai_turn.turn_counter + 1,
                              und |-> IF r.und < 0 THEN ai_turn.und ELSE r.und,
                              steps |-> IF r.und < 0 THEN ai_turn.steps ELSE r.steps,
                              capped |-> r.next = "limit"]
       ELSE /\ game_state' = game_state
            /\ ai_turn' = [ai_turn EXCEPT !.pc = "done", !.capped = TRUE]
    /\ UNCHANGED <<last, ops, ai_player>>

Next ==
    \/ HandleMultiDefense
    \/ SetupGame
    \/ Attack
    \/ Defend
    \/ TakeCards
    \/ DiscardCards
    \/ DrawCards
    \/ CheckGameOver
    \/ ForceAttackPhase

Spec == Init /\ [][Next]_vars

\* process_ai_turn runs with the AiPlayer of any tier
InitAi ==
    /\ InitInProgress \/ InitEndgame
    /\ ai_player \in Tiers

\* cards played before process_ai_turn is called
MaxPlays == 2

\* a seat plays a card onto the table
PlayCard == ops < MaxPlays /\ Attack

\* the AI turn: cards are played onto the table, then process_ai_turn runs
NextAi ==
    \/ PlayCard
    \/ AiStart
    \/ AiRound

\* process_ai_turn is one uninterrupted call: once begun, its loop runs on.
\* This is weak fairness of AiRound, with ENABLED <<AiRound>>_vars written as
\* the state predicate it equals, ai_turn.pc = "loop"
FairAiRound == <>[](ai_turn.pc = "loop") => []<><<AiRound>>_vars

SpecAi == InitAi /\ [][NextAi]_vars /\ FairAiRound

\* ----------------------------------------------- the strategies, on their own
\* The positions the strategy functions are applied to.  Seat 0 is the human,
\* seat 1 the AiPlayer's seat; the trump suit of the pooled positions is Clubs.
\* the cards the AI hand is taken from, in hand order
HandPool ==
    << Card(0, 0), Card(0, Jack), Card(0, Ace), Card(1, 1), Card(1, Jack),
       Card(2, 1), Card(2, Queen) >>

\* the table entries the table is taken from, in table order
TablePool ==
    << <<Card(3, 0), Some(Card(0, 2))>>, <<Card(1, 0), None>>,
       <<Card(2, 0), None>>, <<Card(2, Jack), None>>, <<Card(3, 1), None>>,
       <<Card(0, 7), None>> >>

\* the discard pile, the deck and the human's hand are prefixes of these
DiscardPool == << Card(3, Jack) >>
DeckPool == << Card(1, 2), Card(1, 3), Card(1, 4) >>
OpponentPool == << Card(3, 2), Card(3, 3), Card(3, 4) >>

\* the elements of seq at the positions in S, in order
RECURSIVE sub_seq(_, _, _)
sub_seq(seq, S, i) ==
    IF i > Len(seq) THEN <<>>
    ELSE (IF i \in S THEN <<seq[i]>> ELSE <<>>) \o sub_seq(seq, S, i + 1)

\* the GameState in which the AI seat is to act in the given phase
MovePosition(hand, table, discard, deck_cards, opponent, trump, phase) ==
    [players |-> [i \in 0 .. 1 |->
                     IF i = 0 THEN [player_type |-> "Human", hand |-> opponent]
                     ELSE [player_type |-> "Computer", hand |-> hand]],
     deck |-> [cards |-> deck_cards, trump_suit |-> Some(trump)],
     discard_pile |-> discard,
     table_cards |-> table,
     current_attacker |-> IF phase = "Attack" THEN 1 ELSE 0,
     current_defender |-> IF phase = "Attack" THEN 0 ELSE 1,
     trump_suit |-> Some(trump),
     game_phase |-> phase,
     winner |-> None,
     stuck_counter |-> 0]

\* one card in hand against one card on the table, every pair of cards and
\* every trump suit
InitPairs ==
    \E a \in Cards, b \in Cards, t \in Suits, phase \in {"Attack", "Defense"} :
        /\ a # b
        /\ game_state = MovePosition(<<a>>, << <<b, None>> >>, <<>>, <<>>,
                                  <<CHOOSE c \in Cards \ {a, b} : TRUE>>, t, phase)

\* a hand and a table out of the pools, early or late in the game
InitPooled ==
    \E H \in SUBSET (1 .. Len(HandPool)), T \in SUBSET (1 .. Len(TablePool)),
       d \in 0 .. Len(DiscardPool), k \in {0, Len(DeckPool)},
       o \in {1, Len(OpponentPool)}, phase \in {"Attack", "Defense"} :
        game_state = MovePosition(sub_seq(HandPool, H, 1), sub_seq(TablePool, T, 1),
                                  SubSeq(DiscardPool, 1, d), SubSeq(DeckPool, 1, k),
                                  SubSeq(OpponentPool, 1, o), 0, phase)

InitMoves ==
    /\ InitPairs \/ InitPooled
    /\ last = NoCall(game_state)
    /\ ops = 0
    /\ ai_turn = AiIdle
    /\ ai_player \in Tiers

\* the seat of the AiPlayer in these positions
AiSeat == 1

\* handle_ai_defense asks the strategy whether to take the table
ShouldTakeCards ==
    /\ last.op = "none"
    /\ game_state.game_phase = "Defense"
    /\ \E rnd \in Draws :
          last' = CallOn(game_state, "should_take_cards", -1, AiSeat, <<>>,
                         should_take_cards(ai_player, game_state, AiSeat, rnd))
    /\ UNCHANGED <<game_state, ops, ai_turn, ai_player>>

\* handle_ai_attack asks the strategy for its attack
MakeAttackMove ==
    /\ last.op = "none"
    /\ game_state.game_phase = "Attack"
    /\ \E rnd \in Draws :
          last' = CallOn(game_state, "make_attack_move", -1, AiSeat, <<>>,
                         make_attack_move(ai_player, game_state, AiSeat, rnd))
    /\ UNCHANGED <<game_state, ops, ai_turn, ai_player>>

\* handle_ai_defense asks the strategy for its defense
MakeDefenseMove ==
    /\ last.op = "none"
    /\ game_state.game_phase = "Defense"
    /\ \E rnd \in Draws :
          last' = CallOn(game_state, "make_defense_move", -1, AiSeat, <<>>,
                         make_defense_move(ai_player, game_state, AiSeat, rnd))
    /\ UNCHANGED <<game_state, ops, ai_turn, ai_player>>

\* Card::can_beat of the first hand card and the first table card, both ways
\* round and of the hand card against itself
CanBeat ==
    /\ last.op = "none"
    /\ game_state.players[AiSeat].hand # <<>>
    /\ game_state.table_cards # <<>>
    /\ LET a == game_state.players[AiSeat].hand[1]
           b == game_state.table_cards[1][1]
           t == game_state.trump_suit[1]
       IN  last' = CallOn(game_state, "can_beat", -1, AiSeat, <<a, b>>,
                          <<can_beat(a, b, t), can_beat(b, a, t), can_beat(a, a, t)>>)
    /\ UNCHANGED <<game_state, ops, ai_turn, ai_player>>

NextMoves ==
    \/ ShouldTakeCards
    \/ MakeAttackMove
    \/ MakeDefenseMove
    \/ CanBeat

SpecMoves == InitMoves /\ [][NextMoves]_vars

\* ------------------------------------------------------ the multi-card attack
\* cards selected at once
MaxSelect == 3

\* the deck before the deal
DeckFull == NumSuits * NumRanks

\* a hand in progress in which the human seat has played last: the other seats
\* play down to h[s] cards, then seat 0 does
HumanLast(n, k, d, h) ==
    BurnTo(BurnAll(DrawDown(setup_game(NewGame(n), k), d), h, 1), 0, h[0])

\* the positions a selection is played from: fresh deals and decks used up,
\* each seat holding one card, one card less than a full hand, or all it has
InitMulti ==
    /\ \E n \in 2 .. MaxSeats, k \in {0} \cup ShuffleIds, d \in {0, DeckFull} :
          \E h \in [0 .. (n - 1) -> {1, HandTarget - 1, HandTarget}] :
              game_state = HumanLast(n, k, d, h)
    /\ last = NoCall(game_state)
    /\ ops = 0
    /\ ai_turn = AiIdle
    /\ ai_player = "Medium"

\* the indices of S from the lowest up
RECURSIVE ascending(_)
ascending(S) ==
    IF S = {} THEN <<>>
    ELSE LET m == CHOOSE i \in S : \A j \in S : i <= j
         IN  <<m>> \o ascending(S \ {m})

\* the selections toggle_card_selection can have built: up to MaxSelect
\* distinct indices, one past the end of the hand included, picked upwards or
\* downwards
MultiSelections(hand) ==
    LET sets == {S \in SUBSET (0 .. Len(hand)) :
                    1 <= Cardinality(S) /\ Cardinality(S) <= MaxSelect}
    IN  {ascending(S) : S \in sets} \cup {sorted_indices(S) : S \in sets}

\* handle_attack_phase calls multi_attack for the human attacker
MultiAttack ==
    /\ Running
    /\ game_state.game_phase = "Attack"
    /\ game_state.players[game_state.current_attacker].player_type = "Human"
    /\ \E sel \in MultiSelections(game_state.players[game_state.current_attacker].hand) :
          LET r == multi_attack(game_state, game_state.current_attacker, sel)
          IN  /\ game_state' = r.gs
              /\ last' = CallOn(game_state, "multi_attack", -1,
                                game_state.current_attacker, sel, r.res)
    /\ ops' = ops + 1
    /\ UNCHANGED <<ai_turn, ai_player>>

SpecMulti == InitMulti /\ [][MultiAttack]_vars

\* ------------------------------------------------------ the key handlers
\* The game of the application: seat 0 is the human seat and seat 1 the AI
\* seat. A key handler runs when no call of process_ai_turn is under way.

\* key presses followed
MaxKeys == 3

\* what the human seat has selected when Enter is pressed: nothing, the card
\* selected_card_idx, or the cards selected_cards of the multiple selection mode
KeySelections(hand) ==
    {[kind |-> "none", idx |-> -1, sel |-> <<>>]}
    \cup {[kind |-> "single", idx |-> i, sel |-> <<>>] : i \in IdxInputs(hand)}
    \cup {[kind |-> "multi", idx |-> -1, sel |-> s] : s \in Selections(hand)}

\* App::handle_attack_phase
handle_attack_phase(g, player_idx, c) ==
    IF ~ g.players[player_idx].player_type = "Human"
    THEN Err(g, "Not human player's turn")
    ELSE IF c.kind = "multi" THEN multi_attack(g, player_idx, c.sel)
    ELSE IF c.kind = "single" THEN attack(g, c.idx, player_idx)
    ELSE Err(g, "No card selected for attack")

\* what handle_defense_phase returns after handle_multi_defense has left r
multi_defense_result(r) ==
    IF r.op = "discard_cards" /\ undefended_attacks(r.gs.table_cards) # <<>>
    THEN Err(r.gs, "Not all cards defended")
    ELSE Ok(r.gs)

\* the single-card branch of handle_defense_phase after defend has returned r
single_defense_result(r, player_idx) ==
    IF r.res # "Ok" THEN Err(r.gs, "Invalid defense")
    ELSE IF r.gs.current_defender # player_idx THEN Ok(r.gs)
    ELSE IF undefended_attacks(r.gs.table_cards) = <<>>
    THEN Ok(discard_cards(r.gs, table_defenses(r.gs.table_cards)))
    ELSE Ok(r.gs)

\* App::handle_defense_phase
handle_defense_phase(g, player_idx, c) ==
    IF g.game_phase # "Defense" THEN Err(g, "Not in defense phase")
    ELSE IF g.current_defender # player_idx THEN Err(g, "Wrong player defending")
    ELSE IF g.players[player_idx].player_type # "Human"
    THEN Err(g, "Not human player's turn")
    ELSE IF c.kind = "multi"
    THEN multi_defense_result(handle_multi_defense(g, player_idx, c.sel))
    ELSE IF c.kind = "single"
    THEN single_defense_result(defend(g, c.idx), player_idx)
    ELSE Err(g, "No card selected")

\* the key handlers below give the state they leave (gs) and whether they end
\* by calling process_ai_turn (ai)

\* play_card_action in the Defense phase, handle_defense_phase having returned r
defense_played(r, current_player_idx) ==
    IF r.res # "Ok" THEN [gs |-> r.gs, ai |-> FALSE]
    ELSE IF r.gs.game_phase = "Drawing"
    THEN [gs |-> draw_cards(r.gs), ai |-> TRUE]
    ELSE [gs |-> r.gs,
          ai |-> /\ r.gs.game_phase = "Defense"
                 /\ r.gs.current_defender # current_player_idx
                 /\ is_computer(r.gs, r.gs.current_defender)]

\* App::play_card_action with the selection c
play_card_action(g, c) ==
    IF g.players[current_player_index(g)].player_type # "Human"
    THEN [gs |-> g, ai |-> FALSE]
    ELSE IF g.game_phase = "Attack"
    THEN [gs |-> handle_attack_phase(g, current_player_index(g), c).gs,
          ai |-> handle_attack_phase(g, current_player_index(g), c).res = "Ok"]
    ELSE IF g.game_phase = "Defense"
    THEN defense_played(handle_defense_phase(g, current_player_index(g), c),
                        current_player_index(g))
    ELSE [gs |-> g, ai |-> FALSE]

\* App::pass_turn_action
pass_turn_action(g) ==
    IF /\ g.game_phase = "Attack"
       /\ g.players[current_player_index(g)].player_type = "Human"
    THEN [gs |-> draw_cards(g), ai |-> TRUE]
    ELSE [gs |-> g, ai |-> FALSE]

\* App::take_cards_action
take_cards_action(g) ==
    IF /\ g.game_phase = "Defense"
       /\ g.players[current_player_index(g)].player_type = "Human"
    THEN IF take_cards(g).res # "Ok" THEN [gs |-> take_cards(g).gs, ai |-> FALSE]
         ELSE [gs |-> draw_cards(take_cards(g).gs), ai |-> TRUE]
    ELSE [gs |-> g, ai |-> FALSE]

\* App::start_game_action with the shuffle outcome k
start_game_action(g, k) ==
    [gs |-> setup_game(g, k),
     ai |-> is_computer(setup_game(g, k), current_player_index(setup_game(g, k)))]

\* a key is handled: no call of process_ai_turn is under way
KeyReady == last.res # "panic" /\ ops < MaxKeys /\ ai_turn.pc \in {"idle", "done"}

\* the handler leaves the state r.gs and process_ai_turn begins if r.ai
KeyHandled(name, r) ==
    /\ game_state' = r.gs
    /\ ai_turn' = [AiIdle EXCEPT !.pc = IF r.ai THEN "loop" ELSE "idle"]
    /\ last' = CallOn(game_state, name, -1, current_player_index(game_state),
                      <<>>, "Ok")
    /\ ops' = ops + 1
    /\ UNCHANGED ai_player

\* Enter in the Attack or the Defense phase (handle_key_input)
PlayCardAction ==
    /\ KeyReady
    /\ game_state.game_phase \in {"Attack", "Defense"}
    /\ \E c \in KeySelections(game_state.players[current_player_index(game_state)].hand) :
          KeyHandled("play_card_action", play_card_action(game_state, c))

\* 'p' in the Attack phase
PassTurnAction ==
    /\ KeyReady
    /\ game_state.game_phase = "Attack"
    /\ KeyHandled("pass_turn_action", pass_turn_action(game_state))

\* 't' in the Defense phase
TakeCardsAction ==
    /\ KeyReady
    /\ game_state.game_phase = "Defense"
    /\ KeyHandled("take_cards_action", take_cards_action(game_state))

\* the game is started from the menu, and 'n' starts a new one once the game
\* is over; the difficulty selected stays what it was
StartGameAction ==
    /\ KeyReady
    /\ game_state.game_phase \in {"Setup", "GameOver"}
    /\ \E k \in ShuffleIds :
          KeyHandled("start_game_action", start_game_action(game_state, k))

\* App::new with one computer seat and the difficulty selected in the menu;
\* or a game under way: the deck is used up, the seats hold a few cards each,
\* and process_ai_turn is running if the seat to act is the computer seat
InitApp ==
    /\ \/ /\ game_state = NewGame(2)
          /\ ai_turn = AiIdle
       \/ \E k \in ShuffleIds :
             \E h \in [0 .. 1 -> 0 .. (MaxEndHand + 1)] :
                 /\ game_state = InProgress(2, k, 0, h)
                 /\ ai_turn = [AiIdle EXCEPT !.pc =
                         IF is_computer(game_state, current_player_index(game_state))
                         THEN "loop" ELSE "idle"]
    /\ last = NoCall(game_state)
    /\ ops = 0
    /\ ai_player \in Tiers

\* the keys of handle_key_input that reach the game. The key of the Drawing
\* phase (acknowledge_draw_action) is left out: every handler above and
\* process_ai_turn draw before they return, so the phase is never Drawing
\* when a key is read (DrawingNeverRests below)
NextApp ==
    \/ StartGameAction
    \/ PlayCardAction
    \/ PassTurnAction
    \/ TakeCardsAction
    \/ AiRound

SpecApp == InitApp /\ [][NextApp]_vars

\* ------------------------------------------------------ the end of the deck
\* Hands played down to a card or none while the deck still holds a card or
\* two, or none: the positions in which draw_cards deals the last cards
InitDraw ==
    /\ \E n \in 2 .. MaxSeats, k \in ShuffleIds, d \in 0 .. MaxDeckLeft :
          \E h \in [0 .. (n - 1) -> 0 .. MaxEndHand] :
              game_state = InProgress(n, k, d, h)
    /\ last = NoCall(game_state)
    /\ ops = 0
    /\ ai_turn = AiIdle
    /\ ai_player = "Medium"

NextDraw ==
    \/ Attack
    \/ Defend
    \/ TakeCards
    \/ DiscardCards
    \/ DrawCards
    \/ CheckGameOver

SpecDraw == InitDraw /\ [][NextDraw]_vars

\* ----------------------------------------------------------- properties
\* the state the last call was applied to, and the seats of that state
Pre == last.pre
PreN == NumPlayers(Pre)
HandOf(g, s) == g.players[s].hand

\* the cards of a hand, and of a table (attack and defense cards)
HandSet(hand) == {hand[i] : i \in 1 .. Len(hand)}
TableSet(table) ==
    {table[i][1] : i \in 1 .. Len(table)}
    \cup {table[i][2][1] : i \in {j \in 1 .. Len(table) : table[j][2] # None}}
TableCount(table) ==
    Len(table) + Cardinality({j \in 1 .. Len(table) : table[j][2] # None})

\* hand without the card at the 0-based position idx
Without(hand, idx) ==
    [j \in 1 .. (Len(hand) - 1) |-> IF j <= idx THEN hand[j] ELSE hand[j + 1]]

\* the hands of all seats but s are as before the call
OtherHandsSame(s) ==
    \A t \in DOMAIN Pre.players : t # s => game_state.players[t] = Pre.players[t]

\* the failure results of attack, defend and take_cards
FailureResults ==
    {"Invalid card index",
     "Invalid defense - card cannot beat the attack",
     "No undefended attacks to defend against",
     "No cards on table to take",
     "Failed to remove card from hand",
     "Failed to remove card from hand during pass"}

\* the last call was defend(card_idx) with a valid hand index while some table
\* entry was undefended; DefCard is the card named, AtkCard the first
\* undefended attack card, AtkPos its 1-based table position
DefendCase ==
    /\ last.op = "defend"
    /\ \E i \in 1 .. Len(Pre.table_cards) : Pre.table_cards[i][2] = None
    /\ last.card_idx < Len(HandOf(Pre, Pre.current_defender))
AtkPos ==
    CHOOSE i \in 1 .. Len(Pre.table_cards) :
        /\ Pre.table_cards[i][2] = None
        /\ \A j \in 1 .. (i - 1) : Pre.table_cards[j][2] # None
AtkCard == Pre.table_cards[AtkPos][1]
DefCard == HandOf(Pre, Pre.current_defender)[last.card_idx + 1]

\* C1: whenever attack, defend or take_cards returns a failure, no field of
\* GameState has changed
C1_FailureChangesNothing ==
    (last.op \in {"attack", "defend", "take_cards"} /\ last.res \in FailureResults)
        => game_state = Pre

\* a defend call was refused as an invalid defense against a card on the table
C1_Witness ==
    /\ last.op = "defend"
    /\ last.res = "Invalid defense - card cannot beat the attack"
    /\ game_state.table_cards # <<>>

\* C2: an attack outside the Attack phase or by a seat other than the current
\* attacker, and take_cards outside the Defense phase, return a failure and
\* leave GameState as it was
C2_WrongTurnRejected ==
    /\ (last.op = "attack"
        /\ (Pre.game_phase # "Attack" \/ last.player_idx # Pre.current_attacker))
           => (last.res \in FailureResults /\ game_state = Pre)
    /\ (last.op = "take_cards" /\ Pre.game_phase # "Defense")
           => (last.res \in FailureResults /\ game_state = Pre)

C4_DefendIffCanBeat ==
    /\ ops = 0 =>
          \A a \in Cards, b \in Cards, t \in Suits :
              defend_is_valid(a, b, Some(t)) = can_beat(a, b, t)
    /\ (DefendCase /\ DefCard.rank # AtkCard.rank) =>
          /\ Pre.trump_suit # None =>
                (last.res = "Ok") = can_beat(DefCard, AtkCard, Pre.trump_suit[1])
          /\ last.res = "Ok" =>
                /\ HandOf(game_state, Pre.current_defender)
                       = Without(HandOf(Pre, Pre.current_defender), last.card_idx)
                /\ OtherHandsSame(Pre.current_defender)
                /\ Len(game_state.table_cards) = Len(Pre.table_cards)
                /\ \A i \in 1 .. Len(Pre.table_cards) :
                      game_state.table_cards[i]
                          = IF i = AtkPos THEN <<AtkCard, Some(DefCard)>>
                                          ELSE Pre.table_cards[i]
                /\ game_state.game_phase = Pre.game_phase
                /\ game_state.current_attacker = Pre.current_attacker
                /\ game_state.current_defender = Pre.current_defender

\* a trump of lower rank was recorded as the defense of a non-trump attack
\* card
C4_Witness ==
    /\ DefendCase
    /\ last.res = "Ok"
    /\ DefCard.rank < AtkCard.rank
    /\ Pre.trump_suit = Some(DefCard.suit)
    /\ AtkCard.suit # DefCard.suit
    /\ game_state.table_cards[AtkPos][2] = Some(DefCard)

\* C5: in the Defense phase take_cards with a non-empty table moves every
\* table card, attack and defense cards, into the current defender's hand,
\* empties the table and sets the phase Drawing, and nothing else changes;
\* with an empty table it fails and changes nothing
C5_TakeMovesTable ==
    (last.op = "take_cards" /\ Pre.game_phase = "Defense") =>
        IF Pre.table_cards # <<>>
        THEN /\ last.res = "Ok"
             /\ game_state.table_cards = <<>>
             /\ game_state.game_phase = "Drawing"
             /\ HandSet(HandOf(game_state, Pre.current_defender))
                    = HandSet(HandOf(Pre, Pre.current_defender))
                      \cup TableSet(Pre.table_cards)
             /\ Len(HandOf(game_state, Pre.current_defender))
                    = Len(HandOf(Pre, Pre.current_defender))
                      + TableCount(Pre.table_cards)
             /\ OtherHandsSame(Pre.current_defender)
             /\ game_state.deck = Pre.deck
             /\ game_state.discard_pile = Pre.discard_pile
             /\ game_state.current_attacker = Pre.current_attacker
             /\ game_state.current_defender = Pre.current_defender
        ELSE /\ last.res = "No cards on table to take"
             /\ game_state = Pre

\* the defender took a table that held a defense card
C5_Witness ==
    /\ last.op = "take_cards"
    /\ last.res = "Ok"
    /\ \E i \in 1 .. Len(Pre.table_cards) :
          /\ Pre.table_cards[i][2] # None
          /\ Pre.table_cards[i][2][1]
                 \in HandSet(HandOf(game_state, Pre.current_defender))

\* the table of the last call after its argument cards was written onto it:
\* the last pair given for an entry is its defense
Written(i) == {k \in 1 .. Len(last.cards) : last.cards[k][1] = i - 1}
WrittenTable ==
    [i \in 1 .. Len(Pre.table_cards) |->
        IF Written(i) = {} THEN Pre.table_cards[i]
        ELSE <<Pre.table_cards[i][1],
               Some(last.cards[CHOOSE k \in Written(i) :
                                   \A m \in Written(i) : m <= k][2])>>]
WrittenAllDefended ==
    \A i \in 1 .. Len(WrittenTable) : WrittenTable[i][2] # None

\* C6: discard_cards writes the given defenses onto the table; if then every
\* entry has a defense, all attack and defense cards are appended to the
\* discard pile, the table is empty, the old defender is the attacker, the seat
\* after it the defender and the phase is Drawing; otherwise the table keeps
\* all its entries and roles and phase are as before
C6_DiscardWhenAllDefended ==
    last.op = "discard_cards" =>
        IF WrittenAllDefended
        THEN /\ game_state.table_cards = <<>>
             /\ Len(game_state.discard_pile)
                    = Len(Pre.discard_pile) + 2 * Len(WrittenTable)
             /\ \A i \in 1 .. Len(Pre.discard_pile) :
                    game_state.discard_pile[i] = Pre.discard_pile[i]
             /\ \A i \in 1 .. Len(WrittenTable) :
                    /\ game_state.discard_pile[Len(Pre.discard_pile) + 2 * i - 1]
                           = WrittenTable[i][1]
                    /\ game_state.discard_pile[Len(Pre.discard_pile) + 2 * i]
                           = WrittenTable[i][2][1]
             /\ game_state.current_attacker = Pre.current_defender
             /\ game_state.current_defender = (Pre.current_defender + 1) % PreN
             /\ game_state.game_phase = "Drawing"
        ELSE /\ game_state.table_cards = WrittenTable
             /\ game_state.current_attacker = Pre.current_attacker
             /\ game_state.current_defender = Pre.current_defender
             /\ game_state.game_phase = Pre.game_phase

\* discard_cards was given the defense of an entry that had none, in the
\* Defense phase, and the fully defended table went to the discard pile
C6_Witness ==
    /\ last.op = "discard_cards"
    /\ Pre.game_phase = "Defense"
    /\ \E k \in 1 .. Len(last.cards) :
          Pre.table_cards[last.cards[k][1] + 1][2] = None
    /\ game_state.game_phase = "Drawing"
    /\ Len(game_state.discard_pile) > Len(Pre.discard_pile)

\* C7: a successful attack(card_idx, seat) removes exactly the card at hand
\* position card_idx from the seat's hand, appends it undefended to the end of
\* the table, makes seat the attacker and the seat after it the defender, and
\* sets the phase Defense
C7_AttackEffect ==
    (last.op = "attack" /\ last.res = "Ok") =>
        /\ last.card_idx < Len(HandOf(Pre, last.player_idx))
        /\ HandOf(game_state, last.player_idx)
               = Without(HandOf(Pre, last.player_idx), last.card_idx)
        /\ OtherHandsSame(last.player_idx)
        /\ game_state.table_cards
               = Append(Pre.table_cards,
                        <<HandOf(Pre, last.player_idx)[last.card_idx + 1], None>>)
        /\ game_state.current_attacker = last.player_idx
        /\ game_state.current_defender = (last.player_idx + 1) % PreN
        /\ game_state.game_phase = "Defense"

\* a card that was not the first of its hand was added to a non-empty table
\* by a seat that was not the attacker before
C7_Witness ==
    /\ last.op = "attack"
    /\ last.res = "Ok"
    /\ last.card_idx > 0
    /\ Pre.table_cards # <<>>
    /\ last.player_idx # Pre.current_attacker
    /\ Len(game_state.table_cards) = Len(Pre.table_cards) + 1

\* C8: when the defender has taken the table and draw_cards then runs without
\* the game ending, the new attacker is the seat after the old defender and
\* the new defender the seat after the new attacker
C8_TakerSkipped ==
    (/\ last.op = "draw_cards"
     /\ last.prev.op = "take_cards"
     /\ last.prev.res = "Ok"
     /\ game_state.game_phase # "GameOver") =>
        /\ game_state.current_attacker = (Pre.current_defender + 1) % PreN
        /\ game_state.current_defender = (game_state.current_attacker + 1) % PreN

\* what the seat s lacks of a full hand before the call, the cards that the
\* seats before s in cyclic order from the attacker lack, and what is left of
\* the deck for s
Need(s) ==
    IF Len(HandOf(Pre, s)) >= HandTarget THEN 0 ELSE HandTarget - Len(HandOf(Pre, s))
OrderPos(s) == (s - Pre.current_attacker + PreN) % PreN
RECURSIVE NeedBefore(_)
NeedBefore(s) ==
    IF OrderPos(s) = 0 THEN 0
    ELSE LET t == (s - 1 + PreN) % PreN IN NeedBefore(t) + Need(t)
LeftFor(s) ==
    IF Len(Pre.deck.cards) > NeedBefore(s) THEN Len(Pre.deck.cards) - NeedBefore(s)
    ELSE 0
Got(s) == IF Need(s) < LeftFor(s) THEN Need(s) ELSE LeftFor(s)

\* the last call was draw_cards in the Drawing phase, below the stuck limit
DrawCase ==
    /\ last.op = "draw_cards"
    /\ Pre.game_phase = "Drawing"
    /\ Pre.stuck_counter + 1 <= StuckLimit

\* C9: draw_cards serves the seats in cyclic order from the attacker and tops
\* each up to HandTarget from the end of the deck while the deck has cards, so
\* that of a short deck the earlier seats are filled first
C9_DrawOrder ==
    DrawCase =>
        /\ \A s \in DOMAIN Pre.players :
              /\ Len(HandOf(game_state, s)) = Len(HandOf(Pre, s)) + Got(s)
              /\ HandSet(HandOf(game_state, s))
                     = HandSet(HandOf(Pre, s))
                       \cup {Pre.deck.cards[LeftFor(s) - j] : j \in 0 .. (Got(s) - 1)}
              /\ Got(s) > 0 => Len(HandOf(game_state, s)) <= HandTarget
        /\ \E m \in 0 .. Len(Pre.deck.cards) :
              game_state.deck.cards = SubSeq(Pre.deck.cards, 1, m)

\* after a take, of a short deck a seat early in the order was filled up and a
\* later seat that lacked cards got fewer than it lacked
C9_Witness ==
    /\ DrawCase
    /\ last.prev.op = "take_cards"
    /\ \E s \in DOMAIN Pre.players, t \in DOMAIN Pre.players :
          /\ OrderPos(s) < OrderPos(t)
          /\ Got(s) > 0
          /\ Len(HandOf(game_state, s)) = HandTarget
          /\ Need(t) > 0
          /\ Len(HandOf(game_state, t)) < Len(HandOf(Pre, t)) + Need(t)

\* no seat lacks cards and the deck is not empty
NobodyNeeds(g) ==
    /\ \A s \in DOMAIN g.players : Len(HandOf(g, s)) >= HandTarget
    /\ Len(g.deck.cards) > 0

\* C10: in the Drawing phase, when every hand has at least HandTarget cards
\* and the deck is not empty, draw_cards sets the phase Attack and changes no
\* hand, the deck, the table, the discard pile or the roles; a further
\* draw_cards changes nothing
C10_DrawNothingNeeded ==
    (DrawCase /\ NobodyNeeds(Pre)) =>
        /\ game_state.game_phase = "Attack"
        /\ game_state.players = Pre.players
        /\ game_state.deck = Pre.deck
        /\ game_state.table_cards = Pre.table_cards
        /\ game_state.discard_pile = Pre.discard_pile
        /\ game_state.current_attacker = Pre.current_attacker
        /\ game_state.current_defender = Pre.current_defender
        /\ draw_cards(game_state) = game_state

\* draw_cards ran in the Drawing phase with full hands and cards in the deck
C10_Witness ==
    /\ DrawCase
    /\ NobodyNeeds(Pre)
    /\ game_state.game_phase = "Attack"

\* the seats that hold cards in the state g
Holders(g) == {s \in DOMAIN g.players : Len(HandOf(g, s)) > 0}

\* C11: check_game_over returns true and records a winner exactly when the
\* deck is empty and exactly one seat holds cards; the winner is then an
\* empty-handed seat (with two seats: the other seat) and the phase becomes
\* GameOver.  With a non-empty deck, or two or more seats holding cards, it
\* returns false and changes nothing.  With an empty deck and no seat holding
\* cards it returns true and sets GameOver without recording a winner.
C11_CheckGameOver ==
    last.op = "check_game_over" =>
        IF Len(Pre.deck.cards) = 0 /\ Cardinality(Holders(Pre)) = 1
        THEN /\ last.res = "true"
             /\ game_state.winner # None
             /\ game_state.winner[1] \in DOMAIN Pre.players \ Holders(Pre)
             /\ game_state = [Pre EXCEPT !.winner = game_state.winner,
                                         !.game_phase = "GameOver"]
        ELSE IF Len(Pre.deck.cards) = 0 /\ Holders(Pre) = {}
        THEN /\ last.res = "true"
             /\ game_state = [Pre EXCEPT !.game_phase = "GameOver"]
        ELSE /\ last.res = "false"
             /\ game_state = Pre

\* with two seats, the deck used up and only seat 0 holding cards, seat 1 was
\* recorded as the winner of a hand that was not over before
C11_Witness ==
    /\ last.op = "check_game_over"
    /\ PreN = 2
    /\ Pre.game_phase # "GameOver"
    /\ Pre.winner = None
    /\ Holders(Pre) = {0}
    /\ last.res = "true"
    /\ game_state.winner = Some(1)
    /\ game_state.game_phase = "GameOver"

\* the last call was setup_game, and the deck as it was shuffled in that call
SetupCase == last.op = "setup_game"
ShuffledDeck == shuffle(DeckNew, last.card_idx)

\* C12: after setup_game with N seats every seat holds exactly 6 cards, the
\* deck holds 36 - 6 N cards, the trump suit is the suit of the card that was
\* last in the shuffled deck, the phase is Attack and the stuck counter is 0
C12_SetupDealsSix ==
    SetupCase =>
        /\ \A s \in DOMAIN game_state.players :
              Len(HandOf(game_state, s)) = HandTarget
        /\ Len(game_state.deck.cards) = NumSuits * NumRanks - HandTarget * PreN
        /\ game_state.trump_suit
               = Some(ShuffledDeck.cards[NumSuits * NumRanks].suit)
        /\ game_state.game_phase = "Attack"
        /\ game_state.stuck_counter = 0

\* the cards that setup_game deals to seat s: the s-th group of 6 from the end
\* of the shuffled deck
Dealt(s) ==
    {ShuffledDeck.cards[NumSuits * NumRanks - HandTarget * s - j] :
         j \in 0 .. (HandTarget - 1)}

\* C13: setup_game called on the state left by a finished hand (new game after
\* GameOver) leaves every hand with only the 6 freshly dealt cards, the table
\* and the discard pile empty and no winner recorded
C13_SetupReinitializes ==
    (SetupCase /\ Pre.game_phase = "GameOver") =>
        /\ \A s \in DOMAIN game_state.players :
              /\ Len(HandOf(game_state, s)) = HandTarget
              /\ HandSet(HandOf(game_state, s)) = Dealt(s)
        /\ game_state.table_cards = <<>>
        /\ game_state.discard_pile = <<>>
        /\ game_state.winner = None

\* the ranks of the trumps that seat s holds in the state g
TrumpRanks(g, s) ==
    {HandOf(g, s)[i].rank :
         i \in {j \in 1 .. Len(HandOf(g, s)) : HandOf(g, s)[j].suit = g.trump_suit[1]}}
AllTrumpRanks(g) == UNION {TrumpRanks(g, s) : s \in DOMAIN g.players}

\* C14: setup_game makes the seat that holds the trump of the lowest rank of
\* all hands the starting attacker (the first such seat, and seat 0 if no
\* seat holds a trump) and the seat after it, cyclically, the defender
C14_LowestTrumpStarts ==
    SetupCase =>
        /\ game_state.current_attacker \in DOMAIN game_state.players
        /\ IF AllTrumpRanks(game_state) = {}
           THEN game_state.current_attacker = 0
           ELSE /\ \E r \in TrumpRanks(game_state, game_state.current_attacker) :
                      \A q \in AllTrumpRanks(game_state) : r <= q
                /\ \A s \in DOMAIN game_state.players :
                      s < game_state.current_attacker =>
                          \A r \in TrumpRanks(game_state, s) :
                              \E q \in AllTrumpRanks(game_state) : q < r
        /\ game_state.current_defender = (game_state.current_attacker + 1) % PreN

\* in the first hand of a process two seats were dealt trumps and a seat other
\* than seat 0, holding the lowest of them, became the starting attacker
C14_Witness ==
    /\ SetupCase
    /\ Pre.game_phase = "Setup"
    /\ game_state.current_attacker # 0
    /\ TrumpRanks(game_state, 0) # {}
    /\ \E r \in TrumpRanks(game_state, game_state.current_attacker) :
          \A q \in TrumpRanks(game_state, 0) : r < q
    /\ game_state.current_defender = (game_state.current_attacker + 1) % PreN

\* C15: in every state whose phase is Attack or Defense the attacker and the
\* defender are distinct seats of the table and the defender is the seat after
\* the attacker, cyclically
C15_RolesAdjacent ==
    game_state.game_phase \in {"Attack", "Defense"} =>
        /\ game_state.current_attacker \in Seats
        /\ game_state.current_defender \in Seats
        /\ game_state.current_attacker # game_state.current_defender
        /\ game_state.current_defender
               = (game_state.current_attacker + 1) % NumPlayers(game_state)

\* with three seats discard_cards ended a round, cards were drawn and the
\* Attack phase began with seat 2 attacking seat 0, the seat after it
C15_Witness ==
    /\ last.op = "draw_cards"
    /\ last.prev.op = "discard_cards"
    /\ PreN = 3
    /\ Pre.game_phase = "Drawing"
    /\ Len(Pre.discard_pile) > 0
    /\ game_state.game_phase = "Attack"
    /\ game_state.current_attacker = 2
    /\ game_state.current_defender = 0

\* C16: in every state in which a winner is recorded the deck is empty and at
\* most one seat holds cards
C16_WinnerOnlyAtEnd ==
    game_state.winner # None =>
        /\ Len(game_state.deck.cards) = 0
        /\ Cardinality(Holders(game_state)) <= 1

TableCleared == Pre.table_cards # <<>> /\ game_state.table_cards = <<>>

\* C18: no call removes only part of the table: the table either keeps all
\* its entries, in place, or is emptied; and a call that empties a non-empty
\* table changes the phase in the same step: take_cards leads from Defense to
\* Drawing, a fully defended discard_cards leads to Drawing, a forced move
\* leads to Attack
C18_TableClearedAtomically ==
    last.op # "none" =>
        /\ \/ game_state.table_cards = <<>>
           \/ /\ Len(game_state.table_cards) >= Len(Pre.table_cards)
              /\ \A i \in 1 .. Len(Pre.table_cards) :
                    game_state.table_cards[i][1] = Pre.table_cards[i][1]
        /\ TableCleared =>
              /\ game_state.game_phase # Pre.game_phase
              /\ \/ /\ last.op = "take_cards"
                    /\ Pre.game_phase = "Defense"
                    /\ game_state.game_phase = "Drawing"
                 \/ /\ last.op = "discard_cards"
                    /\ game_state.game_phase = "Drawing"
                 \/ /\ last.op \in {"force_attack_phase", "draw_cards"}
                    /\ game_state.game_phase = "Attack"

\* two attack cards lay on the table and take_cards removed both entries at
\* once and moved the phase from Defense to Drawing
C18_Witness ==
    /\ last.op = "take_cards"
    /\ Len(Pre.table_cards) = 2
    /\ Pre.game_phase = "Defense"
    /\ game_state.table_cards = <<>>
    /\ game_state.game_phase = "Drawing"

\* the moves of the phase within a hand
PhaseMoves ==
    {<<"Attack", "Defense">>, <<"Defense", "Defense">>, <<"Defense", "Drawing">>,
     <<"Drawing", "Attack">>}

\* C19: no call but setup_game leaves the GameOver phase; before GameOver a
\* call leaves the phase as it is or moves it along Attack -> Defense,
\* Defense -> Defense, Defense -> Drawing, Drawing -> Attack, or to GameOver
C19_GameOverTerminal ==
    last.op \notin {"none", "setup_game"} =>
        /\ Pre.game_phase = "GameOver" => game_state.game_phase = "GameOver"
        /\ Pre.game_phase \in {"Attack", "Defense", "Drawing"} =>
              \/ game_state.game_phase = Pre.game_phase
              \/ game_state.game_phase = "GameOver"
              \/ <<Pre.game_phase, game_state.game_phase>> \in PhaseMoves

\* C20: process_ai_turn terminates: its loop counter never exceeds MAX_TURNS,
\* the defense loop of handle_ai_defense makes at most one round per
\* undefended table entry it found, and a call that has begun comes to its end
C20_AiTurnTerminates ==
    /\ [](ai_turn.turn_counter <= MaxTurns /\ ai_turn.steps <= ai_turn.und)
    /\ (ai_turn.pc = "loop") ~> (ai_turn.pc = "done")

\* a call of process_ai_turn has ended after several rounds of its loop, in
\* one of which the defense loop met two undefended entries and made two rounds
C20_Witness ==
    /\ ai_turn.pc = "done"
    /\ ai_turn.turn_counter >= 3
    /\ ai_turn.und = 2
    /\ ai_turn.steps = 2

\* the cards and the trump suit of a call of can_beat, and its three results
BeatA == last.cards[1]
BeatB == last.cards[2]
BeatTrump == Pre.trump_suit[1]

\* C23: can_beat is asymmetric (a beats b and b beats a never both hold) and
\* irreflexive (no card beats itself); a trump beats every non-trump whatever
\* the ranks, and a non-trump never beats a trump
C23_CanBeatRelation ==
    last.op = "can_beat" =>
        /\ ~ (last.res[1] /\ last.res[2])
        /\ ~ last.res[3]
        /\ (BeatA.suit = BeatTrump /\ BeatB.suit # BeatTrump => last.res[1])
        /\ (BeatA.suit # BeatTrump /\ BeatB.suit = BeatTrump => ~ last.res[1])

\* a low trump is asked to beat a higher card of another suit, and does
C23_Witness ==
    /\ last.op = "can_beat"
    /\ BeatA.suit = BeatTrump
    /\ BeatB.suit # BeatTrump
    /\ BeatA.rank < BeatB.rank
    /\ last.res[1]
    /\ ~ last.res[2]

\* the hand of the seat a strategy call decides for, and the trump suit
MoveHand == HandOf(Pre, last.player_idx)
MoveTrump == Pre.trump_suit[1]

\* the table positions of the undefended attacks before the call
UndefendedPos == {i \in 1 .. Len(Pre.table_cards) : Pre.table_cards[i][2] = None}

\* the hand positions whose card beats the attack at table position i
BeatersOf(i) ==
    {j \in 1 .. Len(MoveHand) : can_beat(MoveHand[j], Pre.table_cards[i][1], MoveTrump)}

\* C24: in each tier should_take_cards answers true, whatever the random
\* draws, when some undefended attack on the table is beaten by no card of the
\* deciding seat's hand
C24_TakeWhenUnbeatable ==
    (last.op = "should_take_cards" /\ \E i \in UndefendedPos : BeatersOf(i) = {})
        => last.res = TRUE

\* the Hard tier holds cards, can beat one undefended attack but not another
C24_Witness ==
    /\ last.op = "should_take_cards"
    /\ ai_player = "Hard"
    /\ \E i \in UndefendedPos : BeatersOf(i) = {}
    /\ \E i \in UndefendedPos : BeatersOf(i) # {}
    /\ last.res = TRUE

\* the table position of the first undefended attack before the call, 0 if
\* every attack is defended
FirstUndefendedPos ==
    IF UndefendedPos = {} THEN 0
    ELSE CHOOSE i \in UndefendedPos : \A j \in UndefendedPos : i <= j

\* some hand card beats the first undefended attack
CanDefendFirst == FirstUndefendedPos # 0 /\ BeatersOf(FirstUndefendedPos) # {}

\* the move is Some of exactly one (hand_index, card) pair of the hand
OnePair(move) ==
    /\ move # None
    /\ Len(move[1]) = 1
    /\ move[1][1][1] \in 0 .. (Len(MoveHand) - 1)
    /\ MoveHand[move[1][1][1] + 1] = move[1][1][2]

\* C25: in each tier make_defense_move returns None only when no hand card
\* beats the first undefended attack or no attack is undefended; when some
\* hand card beats the first undefended attack the result is exactly one
\* (hand_index, card) pair
C25_DefenseMoveShape ==
    last.op = "make_defense_move" =>
        /\ (last.res = None => ~ CanDefendFirst)
        /\ (CanDefendFirst => OnePair(last.res))

\* the Hard tier answers the second table entry, the first being defended,
\* with the one pair of a card that is not the first of its hand
C25_Witness ==
    /\ last.op = "make_defense_move"
    /\ ai_player = "Hard"
    /\ FirstUndefendedPos > 1
    /\ CanDefendFirst
    /\ OnePair(last.res)
    /\ last.res[1][1][1] > 0

\* the first undefended attack card before the call
FirstAttack == Pre.table_cards[FirstUndefendedPos][1]

\* the hand positions of the non-trump cards of the attack's suit and higher
\* rank, and of the trumps that beat the attack
SameSuitHigher ==
    {j \in 1 .. Len(MoveHand) : /\ MoveHand[j].suit = FirstAttack.suit
                                /\ MoveHand[j].suit # MoveTrump
                                /\ MoveHand[j].rank > FirstAttack.rank}
BeatingTrumps ==
    {j \in BeatersOf(FirstUndefendedPos) : MoveHand[j].suit = MoveTrump}

\* the move is exactly one pair: a hand position of S whose card has the least
\* rank of S
LowestOf(move, S) ==
    /\ OnePair(move)
    /\ (move[1][1][1] + 1) \in S
    /\ \A j \in S : move[1][1][2].rank <= MoveHand[j].rank

\* C26: Easy make_defense_move answers the first undefended attack with the
\* lowest non-trump card of the attack's suit and higher rank if the hand has
\* one (so it never spends a trump then), otherwise with the lowest trump that
\* beats the attack, otherwise it returns None
C26_EasyDefense ==
    (last.op = "make_defense_move" /\ ai_player = "Easy") =>
        IF FirstUndefendedPos = 0 THEN last.res = None
        ELSE IF SameSuitHigher # {}
        THEN LowestOf(last.res, SameSuitHigher) /\ last.res[1][1][2].suit # MoveTrump
        ELSE IF BeatingTrumps # {} THEN LowestOf(last.res, BeatingTrumps)
        ELSE last.res = None

\* Easy holds two higher cards of the attack's suit and a lower-ranked trump,
\* and answers with the lower of the two
C26_Witness ==
    /\ last.op = "make_defense_move"
    /\ ai_player = "Easy"
    /\ FirstUndefendedPos # 0
    /\ Cardinality(SameSuitHigher) >= 2
    /\ \E j \in BeatingTrumps : \A i \in SameSuitHigher : MoveHand[j].rank < MoveHand[i].rank
    /\ LowestOf(last.res, SameSuitHigher)

\* the hand positions of the cards that are not trumps
NonTrumps == {j \in 1 .. Len(MoveHand) : MoveHand[j].suit # MoveTrump}

\* an initial attack is asked of the tier: the table is empty, the hand is not
InitialAttackBy(tier) ==
    /\ last.op = "make_attack_move"
    /\ ai_player = tier
    /\ Pre.table_cards = <<>>
    /\ MoveHand # <<>>

\* C27: on an initial attack (empty table, non-empty hand) Easy and Medium
\* each return exactly one card and never lead a trump while the hand holds a
\* non-trump card; Easy leads the lowest-rank non-trump card of the hand
C27_InitialAttack ==
    /\ (InitialAttackBy("Easy") \/ InitialAttackBy("Medium")) =>
           /\ OnePair(last.res)
           /\ (NonTrumps # {} => last.res[1][1][2].suit # MoveTrump)
    /\ (InitialAttackBy("Easy") /\ NonTrumps # {}) => LowestOf(last.res, NonTrumps)

\* Medium holds a trump and leads a non-trump out of a pair that is not the
\* lowest non-trump of its hand
C27_Witness ==
    /\ InitialAttackBy("Medium")
    /\ NonTrumps # {}
    /\ NonTrumps # 1 .. Len(MoveHand)
    /\ OnePair(last.res)
    /\ last.res[1][1][2].suit # MoveTrump
    /\ ~ LowestOf(last.res, NonTrumps)

\* a follow-up attack is asked of the tier: the table is not empty
FollowUpBy(tier) ==
    /\ last.op = "make_attack_move"
    /\ ai_player = tier
    /\ Pre.table_cards # <<>>

\* how many cards of rank r lie on the table and in the discard pile
SeenCount(r) ==
    Cardinality({i \in 1 .. Len(Pre.table_cards) : Pre.table_cards[i][1].rank = r})
    + Cardinality({i \in 1 .. Len(Pre.table_cards) :
                      /\ Pre.table_cards[i][2] # None
                      /\ Pre.table_cards[i][2][1].rank = r})
    + Cardinality({i \in 1 .. Len(Pre.discard_pile) : Pre.discard_pile[i].rank = r})

\* the ranks on the table, and those of them seen at least twice
RanksOnTable == {c.rank : c \in TableSet(Pre.table_cards)}
WeakRanks == {r \in RanksOnTable : SeenCount(r) >= 2}

\* the hand positions of the cards of a rank on the table, and of the cards of
\* a weak rank that are not a trump of rank Jack or higher
Matching == {j \in 1 .. Len(MoveHand) : MoveHand[j].rank \in RanksOnTable}
WeakMatching ==
    {j \in 1 .. Len(MoveHand) :
        /\ MoveHand[j].rank \in WeakRanks
        /\ ~ (MoveHand[j].suit = MoveTrump /\ MoveHand[j].rank >= Jack)}

\* C28: on a follow-up attack (non-empty table) Easy and Hard add exactly one
\* card, of a rank on the table, whenever the hand holds a card of such a rank;
\* Easy adds the first such card in hand order; Hard adds a card of a rank seen
\* at least twice across discard pile and table when it holds a card of such a
\* rank that is not a trump of rank Jack or higher
C28_FollowUpAttack ==
    /\ ((FollowUpBy("Easy") \/ FollowUpBy("Hard")) /\ Matching # {}) =>
           /\ OnePair(last.res)
           /\ last.res[1][1][2].rank \in RanksOnTable
    /\ (FollowUpBy("Easy") /\ Matching # {}) =>
           \A j \in Matching : last.res[1][1][1] + 1 <= j
    /\ (FollowUpBy("Hard") /\ WeakMatching # {}) =>
           (last.res[1][1][1] + 1) \in WeakMatching

\* Hard holds a non-trump of a rank seen once on the table and a low trump of
\* a rank seen twice, and adds the trump
C28_Witness ==
    /\ FollowUpBy("Hard")
    /\ WeakMatching # {}
    /\ \E j \in Matching \ WeakMatching : MoveHand[j].suit # MoveTrump
    /\ OnePair(last.res)
    /\ (last.res[1][1][1] + 1) \in WeakMatching
    /\ last.res[1][1][2].suit = MoveTrump

\* the undefended attacks that hand cards can beat, but only trumps of rank
\* Jack or higher
NeedsHighTrump ==
    {i \in UndefendedPos :
        /\ BeatersOf(i) # {}
        /\ \A j \in BeatersOf(i) : MoveHand[j].suit = MoveTrump /\ MoveHand[j].rank >= Jack}

\* should_take_cards is asked of the tier
TakeAskedOf(tier) == last.op = "should_take_cards" /\ ai_player = tier

\* C29: Medium should_take_cards answers true, whatever the random draws,
\* when some undefended attack can be beaten only by trumps of rank Jack or
\* higher of the hand, and when four or more attacks are undefended
C29_MediumTakes ==
    (TakeAskedOf("Medium") /\ (NeedsHighTrump # {} \/ Cardinality(UndefendedPos) >= 4))
        => last.res = TRUE

\* Medium faces four undefended attacks, can beat each of them without a high
\* trump, and takes
C29_Witness ==
    /\ TakeAskedOf("Medium")
    /\ Cardinality(UndefendedPos) >= 4
    /\ NeedsHighTrump = {}
    /\ \A i \in UndefendedPos : BeatersOf(i) # {}
    /\ last.res = TRUE

\* Medium can beat every undefended attack, one of them only with a trump of
\* rank Jack or higher, and takes
C29_WitnessHighTrump ==
    /\ TakeAskedOf("Medium")
    /\ Cardinality(UndefendedPos) < 4
    /\ NeedsHighTrump # {}
    /\ \A i \in UndefendedPos : BeatersOf(i) # {}
    /\ last.res = TRUE

\* the attack cards of the undefended table entries before the call, in order
RECURSIVE UndefendedFrom(_)
UndefendedFrom(i) ==
    IF i > Len(Pre.table_cards) THEN <<>>
    ELSE (IF i \in UndefendedPos THEN <<Pre.table_cards[i][1]>> ELSE <<>>)
         \o UndefendedFrom(i + 1)

\* the card of least rank of a set of cards of one suit
Cheapest(S) == CHOOSE c \in S : \A d \in S : c.rank <= d.rank

\* a valuable card: any trump, or a non-trump of rank Jack or higher
Valuable(c) == c.suit = MoveTrump \/ c.rank >= Jack

\* the greedy plan over the attacks todo, the cards in used being spent: the
\* number of valuable cards with the plan's, or -1 if an attack is left that no
\* unused card beats.  Each attack takes the cheapest unused non-trump that
\* beats it, else the cheapest unused trump
RECURSIVE GreedyPlan(_, _, _)
GreedyPlan(todo, used, valuable) ==
    IF todo = <<>> THEN valuable
    ELSE LET free == {c \in HandSet(MoveHand) \ used : can_beat(c, Head(todo), MoveTrump)}
             plain == {c \in free : c.suit # MoveTrump}
             pick == IF plain # {} THEN Cheapest(plain) ELSE Cheapest(free)
         IN  IF free = {} THEN -1
             ELSE GreedyPlan(Tail(todo), used \cup {pick},
                             IF Valuable(pick) THEN valuable + 1 ELSE valuable)

PlanCost == GreedyPlan(UndefendedFrom(1), {}, 0)

\* C30: Hard should_take_cards answers true when its greedy defense plan
\* cannot cover every undefended attack with distinct hand cards, and when the
\* plan would spend two or more valuable cards; the later rules (hand
\* overload, nearly-empty opponent) do not override this
C30_HardTakes ==
    (TakeAskedOf("Hard") /\ UndefendedPos # {} /\ (PlanCost = -1 \/ PlanCost >= 2))
        => last.res = TRUE

\* in the endgame, against an opponent with one card, a plan that spends two
\* valuable non-trump cards makes Hard take
C30_Witness ==
    /\ TakeAskedOf("Hard")
    /\ Pre.deck.cards = <<>>
    /\ Len(HandOf(Pre, 0)) <= 2
    /\ NonTrumps = 1 .. Len(MoveHand)
    /\ PlanCost >= 2
    /\ last.res = TRUE

\* every undefended attack can be beaten, but not all of them with distinct
\* cards, and Hard takes
C30_WitnessUncovered ==
    /\ TakeAskedOf("Hard")
    /\ \A i \in UndefendedPos : BeatersOf(i) # {}
    /\ PlanCost = -1
    /\ last.res = TRUE

\* the selection of a multi-card attack, the attacker's hand before it, and
\* the selected indices from the highest down
Selected == last.cards
AttackerHand == HandOf(Pre, last.player_idx)
SelectedDown == sorted_indices({Selected[i] : i \in 1 .. Len(Selected)})

\* every selected index lies in the hand
SelectionInHand == \A i \in 1 .. Len(Selected) : Selected[i] < Len(AttackerHand)

\* the selected cards all have one rank
SelectionOneRank ==
    \A i, j \in 1 .. Len(Selected) :
        AttackerHand[Selected[i] + 1].rank = AttackerHand[Selected[j] + 1].rank

\* the selection is no larger than the defender's hand
SelectionFits == Len(Selected) <= Len(HandOf(Pre, Pre.current_defender))

\* the hand without the cards at the selected positions
RECURSIVE Unselected(_)
Unselected(i) ==
    IF i > Len(AttackerHand) THEN <<>>
    ELSE (IF \E j \in 1 .. Len(Selected) : Selected[j] = i - 1
          THEN <<>> ELSE <<AttackerHand[i]>>) \o Unselected(i + 1)

\* C22: a multi-card attack with k selected indices whose cards all have one
\* rank, k no larger than the defender's hand, puts exactly the k selected
\* cards on the table as k undefended entries, highest index first, and removes
\* exactly those cards from the attacker's hand; if the selected cards differ
\* in rank or outnumber the defender's cards, no card is played and the state
\* is unchanged
C22_MultiAttack ==
    (last.op = "multi_attack" /\ SelectionInHand) =>
        IF SelectionOneRank /\ SelectionFits
        THEN /\ last.res = "Ok"
             /\ game_state.table_cards =
                    Pre.table_cards
                    \o [i \in 1 .. Len(Selected) |->
                           <<AttackerHand[SelectedDown[i] + 1], None>>]
             /\ HandOf(game_state, last.player_idx) = Unselected(1)
             /\ \A s \in DOMAIN Pre.players \ {last.player_idx} :
                    HandOf(game_state, s) = HandOf(Pre, s)
        ELSE last.res # "Ok" /\ game_state = Pre

\* three cards of one rank, none of them next to another in the hand, were
\* selected from the lowest index up and are on the table
C22_Witness ==
    /\ last.op = "multi_attack"
    /\ last.res = "Ok"
    /\ Len(Selected) = 3
    /\ Selected[1] + 1 < Selected[2]
    /\ Selected[2] + 1 < Selected[3]
    /\ Len(game_state.table_cards) = Len(Pre.table_cards) + 3

\* two cards of one rank were selected against a defender holding one card,
\* and nothing was played
C22_WitnessTooMany ==
    /\ last.op = "multi_attack"
    /\ SelectionInHand
    /\ Len(Selected) = 2
    /\ SelectionOneRank
    /\ ~ SelectionFits
    /\ last.res # "Ok"

\* the seat to act is the human seat, in the Attack or the Defense phase
HumanActionable ==
    \/ /\ game_state.game_phase = "Attack"
       /\ ~ is_computer(game_state, game_state.current_attacker)
    \/ /\ game_state.game_phase = "Defense"
       /\ ~ is_computer(game_state, game_state.current_defender)

\* no key is read in the Drawing phase
DrawingNeverRests == ai_turn.pc # "loop" => game_state.game_phase # "Drawing"

\* process_ai_turn has returned
AiReturned == ai_turn.pc = "done"

\* C21: with one human and one AI seat, whenever process_ai_turn returns and
\* the game is not over, the phase is Attack with the human seat as
\* current_attacker or Defense with the human seat as current_defender, and
\* the loop was not ended by the iteration cap
C21_HumanActionable ==
    (AiReturned /\ game_state.game_phase # "GameOver")
        => (HumanActionable /\ ~ ai_turn.capped)

\* the hand positions whose card has the rank of the first undefended attack
\* (defend passes the attack on with such a card), and the safe ones among
\* them: neither an Ace nor a trump of rank Jack or higher
PassCards == {j \in 1 .. Len(MoveHand) : MoveHand[j].rank = FirstAttack.rank}
SafePassCards ==
    {j \in PassCards : /\ MoveHand[j].rank # Ace
                       /\ ~ (MoveHand[j].suit = MoveTrump /\ MoveHand[j].rank >= Jack)}
NonTrumpBeaters ==
    {j \in BeatersOf(FirstUndefendedPos) : MoveHand[j].suit # MoveTrump}

\* the move plays the hand position of an unsafe pass card
UnsafePass(move) ==
    /\ OnePair(move)
    /\ (move[1][1][1] + 1) \in (PassCards \ SafePassCards)

\* C31: Hard make_defense_move passes with an unsafe pass card only when the
\* hand holds no safe pass card and no card that beats the attack; when some
\* hand card beats the first undefended attack and no safe pass card exists,
\* it returns a beating card, the lowest non-trump beater if there is one, and
\* not a pass
C31_HardUnsafePass ==
    (last.op = "make_defense_move" /\ ai_player = "Hard" /\ FirstUndefendedPos # 0) =>
        /\ UnsafePass(last.res) =>
               (SafePassCards = {} /\ BeatersOf(FirstUndefendedPos) = {})
        /\ (SafePassCards = {} /\ BeatersOf(FirstUndefendedPos) # {}) =>
               /\ OnePair(last.res)
               /\ (last.res[1][1][1] + 1) \in BeatersOf(FirstUndefendedPos)
               /\ (last.res[1][1][1] + 1) \notin PassCards
               /\ NonTrumpBeaters # {} => LowestOf(last.res, NonTrumpBeaters)

\* the cards of a sequence, as a set
CardsOf(seq) == {seq[i] : i \in 1 .. Len(seq)}

\* how many cards the state g holds: in the deck, the hands, on the table (as
\* attacks and as defenses) and in the discard pile; and which cards
CardTotal(g) ==
    LET RECURSIVE hands(_)
        hands(s) == IF s >= NumPlayers(g) THEN 0
                    ELSE Len(g.players[s].hand) + hands(s + 1)
    IN  Len(g.deck.cards) + hands(0) + Len(g.table_cards)
        + Cardinality({i \in 1 .. Len(g.table_cards) : g.table_cards[i][2] # None})
        + Len(g.discard_pile)
CardsHeld(g) ==
    CardsOf(g.deck.cards)
    \cup UNION {CardsOf(g.players[s].hand) : s \in DOMAIN g.players}
    \cup {g.table_cards[i][1] : i \in 1 .. Len(g.table_cards)}
    \cup UNION {CardsOf(g.table_cards[i][2]) : i \in 1 .. Len(g.table_cards)}
    \cup CardsOf(g.discard_pile)

\* the state holds every card of the deck exactly once
Conserved(g) == CardTotal(g) = NumSuits * NumRanks /\ CardsHeld(g) = Cards

\* the last call is one of the rules engine on its own; discard_cards was
\* called with the defenses already on the table
EngineCall ==
    \/ last.op \in {"attack", "defend", "take_cards", "draw_cards",
                    "check_game_over", "force_attack_phase"}
    \/ /\ last.op = "discard_cards"
       /\ last.cards = table_defenses(Pre.table_cards)

\* C32: after setup_game on a fresh GameState the deck and the hands hold the
\* 36 distinct cards, and attack, defend, take_cards, draw_cards,
\* check_game_over, force_attack_phase and discard_cards with the defenses on
\* the table keep it so: deck, hands, table and discard pile together hold
\* every card exactly once
C32_CardsConserved ==
    /\ (last.op = "setup_game" /\ Pre.game_phase = "Setup") => Conserved(game_state)
    /\ (last.op = "none" /\ game_state.game_phase # "Setup") => Conserved(game_state)
    /\ (EngineCall /\ last.res # "panic" /\ Conserved(Pre)) => Conserved(game_state)

\* a defended table is taken into the defender's hand, all 36 cards still held
C32_Witness ==
    /\ last.op = "take_cards"
    /\ last.res = "Ok"
    /\ \E i \in 1 .. Len(Pre.table_cards) : Pre.table_cards[i][2] # None
    /\ Conserved(Pre)
    /\ Conserved(game_state)

\* the step is a call of handle_multi_defense that mapped a defense to every
\* undefended attack: it ends with discard_cards called with the mapped cards,
\* which are not yet on the table
MultiDefended ==
    /\ last'.op = "discard_cards"
    /\ last'.cards # table_defenses(last'.pre.table_cards)

\* the cards the call records as defenses on the table
RecordedDefenses == {last'.cards[i][2] : i \in 1 .. Len(last'.cards)}

\* the hand without the cards of S, in hand order
RECURSIVE HandWithout(_, _)
HandWithout(hand, S) ==
    IF hand = <<>> THEN <<>>
    ELSE (IF hand[1] \in S THEN <<>> ELSE <<hand[1]>>) \o HandWithout(Tail(hand), S)

\* C33: a multi-card defense that finds a valid defense for every undefended
\* attack removes from the defender's hand exactly the cards it records as
\* defenses on the table: the hand afterwards is the old hand without them
C33_MultiDefenseRemoves ==
    [][MultiDefended =>
          game_state'.players[game_state.current_defender].hand
              = HandWithout(game_state.players[game_state.current_defender].hand,
                            RecordedDefenses)]_vars

\* the last call was draw_cards in the Drawing phase
DrewInDrawing == last.op = "draw_cards" /\ Pre.game_phase = "Drawing"

\* stuck_counter right after the increment at the top of that call
CounterInCall == Pre.stuck_counter + 1

\* C34: every call of draw_cards made in the Drawing phase returns with the
\* phase Attack or GameOver and stuck_counter 0; stuck_counter is 0 in every
\* state between operations, is at most 1 during a call, and the deadlock guard
\* (stuck_counter above 5) never fires
C34_DrawNeverStuck ==
    /\ game_state.stuck_counter = 0
    /\ DrewInDrawing =>
           /\ game_state.game_phase \in {"Attack", "GameOver"}
           /\ CounterInCall <= 1
           /\ ~ (CounterInCall > StuckLimit)

\* draw_cards dealt cards in the Drawing phase and returned in the Attack
\* phase with the counter back at 0
C34_Witness ==
    /\ DrewInDrawing
    /\ Len(game_state.deck.cards) < Len(Pre.deck.cards)
    /\ game_state.game_phase = "Attack"
    /\ game_state.stuck_counter = 0

\* the table is empty if the phase is Attack or Drawing
TableRule(g) == g.game_phase \in {"Attack", "Drawing"} => g.table_cards = <<>>

\* the last call is one of those that drive a hand
HandCall ==
    /\ last.op \in {"attack", "defend", "take_cards", "discard_cards", "draw_cards"}
    /\ last.res # "panic"

\* the seats of attacker and defender are those before the call
SameRoles ==
    /\ game_state.current_attacker = Pre.current_attacker
    /\ game_state.current_defender = Pre.current_defender

SeatsWithCards(g) == {s \in DOMAIN g.players : g.players[s].hand # <<>>}

\* C36: with an empty deck draw_cards in the Drawing phase never declares the
\* game over: it only moves the phase to Attack, whatever the hands hold, and
\* leaves the win condition to a later check_game_over; draw_cards reaches
\* GameOver only when it dealt cards and emptied the deck by that
C36_DrawLeavesGameOverToCaller ==
    DrewInDrawing =>
        /\ Pre.deck.cards = <<>> =>
               game_state = [Pre EXCEPT !.game_phase = "Attack", !.stuck_counter = 0]
        /\ game_state.game_phase = "GameOver" =>
               /\ Len(game_state.deck.cards) < Len(Pre.deck.cards)
               /\ game_state.deck.cards = <<>>

\* the deck is empty and at most one seat holds cards: draw_cards moves to
\* Attack, and the check_game_over that follows ends the game
C36_Witness ==
    /\ last.op = "check_game_over"
    /\ last.res = "true"
    /\ last.prev.op = "draw_cards"
    /\ Pre.game_phase = "Attack"
    /\ Pre.deck.cards = <<>>
    /\ Cardinality(SeatsWithCards(Pre)) <= 1
    /\ game_state.game_phase = "GameOver"

\* draw_cards deals the last card of the deck to the only seat that then holds
\* cards, and ends the game itself
C36_WitnessDealt ==
    /\ DrewInDrawing
    /\ Pre.deck.cards # <<>>
    /\ game_state.deck.cards = <<>>
    /\ game_state.game_phase = "GameOver"

\* the human attacker has declined to attack: pass_turn_action in the Attack
\* phase with the human seat to act
HumanPassed ==
    /\ last.op = "pass_turn_action"
    /\ Pre.game_phase = "Attack"
    /\ ~ is_computer(Pre, Pre.current_attacker)

\* phase, roles and hands are exactly what they were before the call
Unmoved ==
    /\ game_state.game_phase = Pre.game_phase
    /\ SameRoles
    /\ game_state.players = Pre.players

\* C37: when the attacker declines to attack in the Attack phase the game
\* skips to the draw phase: the draw_cards call made at that point takes
\* effect and the turn moves on, phase, roles and hands not all staying
\* exactly as they were
C37_PassMovesOn == HumanPassed => ~ Unmoved

\* the hand index handle_ai_defense finds for the card of the move
ProposedIdx == find_card_index_in_hand(MoveHand, last.res[1][1][2])

\* defend with the proposed card, in the state the move was computed from
ProposedDefense == defend(Pre, ProposedIdx[1])

\* the proposed card now lies on the first undefended attack
BeatsFirst ==
    ProposedDefense.gs.table_cards[FirstUndefendedPos][2] = Some(last.res[1][1][2])

\* the proposed card was passed on: it lies on the table as a new attack
PassedOn ==
    /\ Len(ProposedDefense.gs.table_cards) = Len(Pre.table_cards) + 1
    /\ ProposedDefense.gs.table_cards[Len(Pre.table_cards) + 1]
           = <<last.res[1][1][2], None>>

\* C38: every move make_defense_move proposes, in any tier, is legal in the
\* state it was computed from: the returned card is the card at the returned
\* hand index, and defend with that card succeeds, as a beat of the first
\* undefended attack or as a pass; defend never fails for a proposed card
C38_DefenseMoveLegal ==
    (last.op = "make_defense_move" /\ last.res # None) =>
        /\ OnePair(last.res)
        /\ ProposedIdx = Some(last.res[1][1][1])
        /\ ProposedDefense.res = "Ok"
        /\ BeatsFirst \/ PassedOn

\* the Hard tier proposes a pass and the Medium tier a beat with a card that
\* is not the first of the hand
C38_Witness ==
    /\ last.op = "make_defense_move"
    /\ last.res # None
    /\ last.res[1][1][1] > 0
    /\ ProposedDefense.res = "Ok"
    /\ \/ ai_player = "Hard" /\ PassedOn
       \/ ai_player = "Medium" /\ BeatsFirst

\* C39: in every tier, when the table is not empty, each card returned by
\* make_attack_move has a rank that is already on the table, as an attack or
\* a defense card; when the hand holds no such card the move is empty or None
C39_AttackAddsTableRanks ==
    (last.op = "make_attack_move" /\ Pre.table_cards # <<>>) =>
        \/ last.res = None
        \/ \A k \in 1 .. Len(last.res[1]) : last.res[1][k][2].rank \in RanksOnTable

\* setup_game was called on a fresh GameState
FreshSetup == last.op = "setup_game" /\ Pre.game_phase = "Setup"

\* the deck as shuffle outcome k leaves it, and its last card, which sets the
\* trump suit
Shuffled(k) == shuffle(DeckNew, k)
BottomCard(k) == Shuffled(k).cards[Len(Shuffled(k).cards)]

\* the shuffle outcomes the deal is looked at for, beyond those a game uses
ShufflesDealt == 0 .. (2 * Len(Strides))

\* the hand positions of the trumps of seat s
TrumpsOf(g, s) ==
    {j \in 1 .. Len(g.players[s].hand) : Some(g.players[s].hand[j].suit) = g.trump_suit}

\* C40: after setup_game on a fresh GameState the card that determined the
\* trump suit, the last card of the shuffled order, is the first card dealt and
\* lies in seat 0's hand; so some seat holds a trump, the starting attacker
\* holds at least one trump, and the fallback to seat 0 for the case that no
\* seat holds a trump is not taken
C40_TrumpCardDealt ==
    FreshSetup =>
        /\ \A k \in ShufflesDealt :
               /\ Shuffled(k).trump_suit = Some(BottomCard(k).suit)
               /\ deal(Shuffled(k), HandTarget).hand[1] = BottomCard(k)
        /\ game_state.trump_suit = Some(BottomCard(last.card_idx).suit)
        /\ BottomCard(last.card_idx) \in CardsOf(game_state.players[0].hand)
        /\ TrumpsOf(game_state, 0) # {}
        /\ TrumpsOf(game_state, game_state.current_attacker) # {}
        /\ first_player_scan(game_state, 0, 0, None)[2] # None

\* a seat other than seat 0 holds the lowest trump and starts, seat 0 holding
\* the card that set the trump suit
C40_Witness ==
    /\ FreshSetup
    /\ game_state.current_attacker # 0
    /\ BottomCard(last.card_idx) \in CardsOf(game_state.players[0].hand)
    /\ TrumpsOf(game_state, game_state.current_attacker) # {}

====
